---- MODULE Spec2Model ----
(***************************************************************************)
(* A model of the DreamBerd interpreter: the lexer (dreamberd_lexer.py),   *)
(* the recursive-descent parser (dreamberd_parser.py) and the tree-walking *)
(* evaluator (src/dreamberd_interpreter.py).                               *)
(*                                                                         *)
(* Python values are records of one shape, [t, n, d, s, a]: t is the       *)
(* Python type name, n/d a rational (ints have d = 1, floats are kept as   *)
(* exact normalised rationals), s the text of a str (or the name of a      *)
(* callable), a the elements of a list.                                    *)
(***************************************************************************)
EXTENDS Integers, Sequences, FiniteSets, TLC

(***************************************************************************)
(* Bounds of the model.                                                    *)
(***************************************************************************)
\* statements one run of the evaluator visits at top level
MaxSteps == 3
\* the longest array literal, and the largest index tried on it
MaxLen == 3
\* the longest run of '=' in a source of the lexer's specification
MaxRun == 6
\* the depth of the scope stack a lookup walks
MaxDepth == 3
\* the last instant of the wall clock, in seconds
MaxNow == 2

(***************************************************************************)
(* Python values.                                                          *)
(***************************************************************************)
MkVal(t, n, d, s, a) == [t |-> t, n |-> n, d |-> d, s |-> s, a |-> a]

Abs(i) == IF i < 0 THEN -i ELSE i

RECURSIVE Gcd(_, _)
Gcd(a, b) == IF b = 0 THEN a ELSE Gcd(b, a % b)

IntV(i) == MkVal("int", i, 1, "", <<>>)

\* a float, kept as the exact rational n/d in lowest terms, d > 0
FloatV(n, d) ==
  LET g == Gcd(Abs(n), Abs(d))
      sg == IF d < 0 THEN -1 ELSE 1
  IN  MkVal("float", sg * (n \div g), sg * (d \div g), "", <<>>)

StrV(s) == MkVal("str", 0, 1, s, <<>>)
BoolV(b) == MkVal("bool", IF b THEN 1 ELSE 0, 1, "", <<>>)
NoneV == MkVal("NoneType", 0, 1, "", <<>>)
ListV(elems) == MkVal("list", 0, 1, "", elems)
\* a Python callable held in a binding: the built-in print
BuiltinV(name) == MkVal("function", 0, 1, name, <<>>)
\* a FunctionDeclaration node held in a binding: a holds the node
FuncDeclV(node) == MkVal("FunctionDeclaration", 0, 1, node.s, <<node>>)

IsNum(v) == v.t \in {"int", "float", "bool"}
\* isinstance(v, int): bool is a subclass of int
IsInt(v) == v.t \in {"int", "bool"}
IsFloat(v) == v.t = "float"
IsStr(v) == v.t = "str"
IsList(v) == v.t = "list"

\* Python's ==, on the values of the model
RECURSIVE PyEq(_, _)
PyEq(x, y) ==
  IF IsNum(x) /\ IsNum(y) THEN x.n * y.d = y.n * x.d
  ELSE IF IsStr(x) /\ IsStr(y) THEN x.s = y.s
  ELSE IF IsList(x) /\ IsList(y)
    THEN /\ Len(x.a) = Len(y.a)
         /\ \A i \in 1..Len(x.a) : PyEq(x.a[i], y.a[i])
  ELSE IF x.t = "NoneType" /\ y.t = "NoneType" THEN TRUE
  ELSE IF x.t = y.t /\ x.t \in {"function", "FunctionDeclaration"} THEN x.s = y.s
  ELSE FALSE

\* Python's truth value
Truthy(v) ==
  IF IsNum(v) THEN v.n # 0
  ELSE IF IsStr(v) THEN v.s # ""
  ELSE IF IsList(v) THEN Len(v.a) > 0
  ELSE IF v.t = "NoneType" THEN FALSE
  ELSE TRUE

(***************************************************************************)
(* str(): the text of a value, as print and the debug line render it.      *)
(***************************************************************************)
Digit == <<"0", "1", "2", "3", "4", "5", "6", "7", "8", "9">>

RECURSIVE NatToStr(_)
NatToStr(i) ==
  IF i < 10 THEN Digit[i + 1] ELSE NatToStr(i \div 10) \o Digit[(i % 10) + 1]

IntToStr(i) == IF i < 0 THEN "-" \o NatToStr(-i) ELSE NatToStr(i)

\* the decimal digits of r/d (0 <= r < d) when the expansion ends within k digits
RECURSIVE FracDigits(_, _, _)
FracDigits(r, d, k) ==
  IF r = 0 THEN ""
  ELSE IF k = 0 THEN "~"
  ELSE NatToStr((r * 10) \div d) \o FracDigits((r * 10) % d, d, k - 1)

\* repr of a float with a short terminating expansion: 0.5, 6.0, -2.5
FloatToStr(n, d) ==
  LET an == Abs(n)
      ip == an \div d
      r == an % d
  IN  (IF n < 0 THEN "-" ELSE "") \o NatToStr(ip) \o "."
        \o (IF r = 0 THEN "0" ELSE FracDigits(r, d, 4))

RECURSIVE PyStr(_)
RECURSIVE PyRepr(_)
RECURSIVE JoinRepr(_, _)
JoinRepr(elems, i) ==
  IF i > Len(elems) THEN ""
  ELSE (IF i > 1 THEN ", " ELSE "") \o PyRepr(elems[i]) \o JoinRepr(elems, i + 1)

PyRepr(v) == IF IsStr(v) THEN "'" \o v.s \o "'" ELSE PyStr(v)

PyStr(v) ==
  CASE v.t = "int" -> IntToStr(v.n)
    [] v.t = "float" -> FloatToStr(v.n, v.d)
    [] v.t = "str" -> v.s
    [] v.t = "bool" -> IF v.n = 1 THEN "True" ELSE "False"
    [] v.t = "NoneType" -> "None"
    [] v.t = "list" -> "[" \o JoinRepr(v.a, 1) \o "]"
    [] OTHER -> "<" \o v.t \o " " \o v.s \o ">"

(***************************************************************************)
(* The outcome of evaluating something: err = "" and the value v, or the   *)
(* exception raised (err names it) and no value.                           *)
(***************************************************************************)
NoFault == ""
Ok(v) == [v |-> v, err |-> NoFault]
Raise(msg) == [v |-> NoneV, err |-> msg]

\* evaluations the model does not cover (irrational powers, str % list, ...);
\* no reachable state of any specification below evaluates one
Unmodelled == "Unmodelled"

(***************************************************************************)
(* Rational arithmetic behind int and float.                               *)
(***************************************************************************)
\* floor(p / q), q # 0
FloorDiv(p, q) == IF q < 0 THEN (-p) \div (-q) ELSE p \div q

\* int(x) of a float: truncation toward zero
Trunc(n, d) == IF n < 0 THEN -((-n) \div d) ELSE n \div d

\* the numeric result of an operator: an int when both operands are ints
\* (bool counts as int) and the operator keeps ints, else a float
NumResult(x, y, n, d, keepsInt) ==
  IF IsInt(x) /\ IsInt(y) /\ keepsInt THEN IntV(n \div d) ELSE FloatV(n, d)

RECURSIVE Repeat(_, _)
Repeat(s, k) == IF k <= 0 THEN "" ELSE s \o Repeat(s, k - 1)

RECURSIVE RepeatSeq(_, _)
RepeatSeq(q, k) == IF k <= 0 THEN <<>> ELSE q \o RepeatSeq(q, k - 1)

\* the strings of the model that contain a '/', with the two parts
\* float() makes of them; every other string of the model has no '/'
SlashParts(s) ==
  CASE s = "1/2" -> <<1, 2>>
    [] s = "1/0" -> <<1, 0>>
    [] OTHER -> <<>>

\* lines 180-186: a str operand holding 'a/b' becomes the float a / b
FractionOperand(x) ==
  IF IsStr(x) /\ SlashParts(x.s) # <<>>
    THEN IF SlashParts(x.s)[2] = 0 THEN Raise("ZeroDivisionError")
         ELSE Ok(FloatV(SlashParts(x.s)[1], SlashParts(x.s)[2]))
  ELSE Ok(x)

\* a membership test that finds nothing
InDeleted_never(x, deleted_values) == Ok(BoolV(FALSE))

\* x in self.deleted_values: hashing a list raises TypeError
InDeleted(x, deleted_values) ==
  IF IsList(x) THEN Raise("TypeError")
  ELSE Ok(BoolV(\E dv \in deleted_values : PyEq(x, dv)))

PyAdd(x, y) ==
  IF IsNum(x) /\ IsNum(y)
    THEN Ok(NumResult(x, y, x.n * y.d + y.n * x.d, x.d * y.d, TRUE))
  ELSE IF IsStr(x) /\ IsStr(y) THEN Ok(StrV(x.s \o y.s))
  ELSE IF IsList(x) /\ IsList(y) THEN Ok(ListV(x.a \o y.a))
  ELSE Raise("TypeError")

PySub(x, y) ==
  IF IsNum(x) /\ IsNum(y)
    THEN Ok(NumResult(x, y, x.n * y.d - y.n * x.d, x.d * y.d, TRUE))
  ELSE Raise("TypeError")

PyMul(x, y) ==
  IF IsNum(x) /\ IsNum(y) THEN Ok(NumResult(x, y, x.n * y.n, x.d * y.d, TRUE))
  ELSE IF IsStr(x) /\ IsInt(y) THEN Ok(StrV(Repeat(x.s, y.n)))
  ELSE IF IsInt(x) /\ IsStr(y) THEN Ok(StrV(Repeat(y.s, x.n)))
  ELSE IF IsList(x) /\ IsInt(y) THEN Ok(ListV(RepeatSeq(x.a, y.n)))
  ELSE IF IsInt(x) /\ IsList(y) THEN Ok(ListV(RepeatSeq(y.a, x.n)))
  ELSE Raise("TypeError")

\* Python's true division; the caller has excluded right == 0
PyDiv(x, y) ==
  IF IsNum(x) /\ IsNum(y)
    THEN IF y.n = 0 THEN Raise("ZeroDivisionError")
         ELSE Ok(FloatV(x.n * y.d, x.d * y.n))
  ELSE Raise("TypeError")

PyPow(x, y) ==
  IF IsNum(x) /\ IsNum(y)
    THEN IF y.d # 1 THEN Raise(Unmodelled)
         ELSE IF y.n >= 0
           THEN Ok(NumResult(x, y, x.n ^ y.n, x.d ^ y.n, TRUE))
         ELSE IF x.n = 0 THEN Raise("ZeroDivisionError")
         ELSE Ok(FloatV(x.d ^ (-y.n), x.n ^ (-y.n)))
  ELSE Raise("TypeError")

\* Python's %: the result takes the sign of the divisor
PyMod(x, y) ==
  IF IsNum(x) /\ IsNum(y)
    THEN IF y.n = 0 THEN Raise("ZeroDivisionError")
         ELSE LET q == FloorDiv(x.n * y.d, x.d * y.n)
              IN  Ok(NumResult(x, y, x.n * y.d - q * y.n * x.d, x.d * y.d, TRUE))
  ELSE IF IsStr(x) THEN (IF IsList(y) THEN Raise(Unmodelled) ELSE Raise("TypeError"))
  ELSE Raise("TypeError")

\* right == 0 in Python: any number equal to zero (False included)
IsZero(v) == IsNum(v) /\ v.n = 0

evaluate_arithmetic(left0, operator, right0, deleted_values) ==
  LET dl == InDeleted(left0, deleted_values)
  IN
  IF dl.err # NoFault THEN dl
  ELSE IF dl.v.n = 1 THEN Raise("Cannot perform arithmetic on deleted values")
  ELSE
  LET dr == InDeleted(right0, deleted_values)
  IN
  IF dr.err # NoFault THEN dr
  ELSE IF dr.v.n = 1 THEN Raise("Cannot perform arithmetic on deleted values")
  ELSE
  LET fl == FractionOperand(left0)
  IN
  IF fl.err # NoFault THEN fl
  ELSE
  LET fr == FractionOperand(right0)
  IN
  IF fr.err # NoFault THEN fr
  ELSE
  LET left == fl.v
      right == fr.v
  IN
  IF operator = "/" /\ IsZero(right) THEN Ok(StrV("undefined"))
  ELSE IF operator = "+" THEN PyAdd(left, right)
  ELSE IF operator = "-" THEN PySub(left, right)
  ELSE IF operator = "*" THEN PyMul(left, right)
  ELSE IF operator = "/" THEN PyDiv(left, right)
  ELSE IF operator = "^" THEN PyPow(left, right)
  ELSE IF operator = "%" THEN PyMod(left, right)
  ELSE Ok(NoneV)

\* x < y on numbers, as a sign test on the cross product
NumLess(x, y) == x.n * y.d < y.n * x.d

\* left is right, decided from the values alone where that is possible:
\* CPython keeps one object for each int from -5 to 256, for True, False
\* and None, and for each string of at most one character
IsSame(x, y) ==
  /\ x.t = y.t
  /\ \/ x.t \in {"bool", "NoneType"} /\ x.n = y.n
     \/ x.t = "int" /\ x.n = y.n /\ x.n \in -5..256
     \/ x.t = "str" /\ x.s = y.s /\ Len(x.s) <= 1

\* two values that may be one object or two: equal, of one type, and not
\* of the values CPython shares
MaybeSame(x, y) == x.t = y.t /\ PyEq(x, y) /\ ~IsSame(x, y)

Ordered(x, y, strict, flip) ==
  IF IsNum(x) /\ IsNum(y)
    THEN LET a == IF flip THEN y ELSE x
             b == IF flip THEN x ELSE y
         IN  Ok(BoolV(IF strict THEN NumLess(a, b) ELSE ~NumLess(b, a)))
  ELSE IF IsStr(x) /\ IsStr(y) THEN Raise(Unmodelled)
  ELSE Raise("TypeError")

evaluate_comparison(left, operator, right) ==
  IF operator = "="
    THEN IF IsNum(left) /\ IsNum(right)
           THEN Ok(BoolV(2 * Abs(left.n * right.d - right.n * left.d)
                           < left.d * right.d))
         ELSE Raise("TypeError")
  ELSE IF operator = "==" THEN Ok(BoolV(PyStr(left) = PyStr(right)))
  ELSE IF operator = "===" THEN Ok(BoolV(PyEq(left, right) /\ left.t = right.t))
  ELSE IF operator = "===="
    THEN IF MaybeSame(left, right) THEN Raise(Unmodelled)
         ELSE Ok(BoolV(IsSame(left, right)))
  ELSE IF operator = "!=" THEN Ok(BoolV(~PyEq(left, right)))
  ELSE IF operator = "<" THEN Ordered(left, right, TRUE, FALSE)
  ELSE IF operator = ">" THEN Ordered(left, right, TRUE, TRUE)
  ELSE IF operator = "<=" THEN Ordered(left, right, FALSE, FALSE)
  ELSE IF operator = ">=" THEN Ordered(left, right, FALSE, TRUE)
  ELSE Ok(BoolV(FALSE))

(***************************************************************************)
(* AST nodes (dreamberd_ast.py), records of one shape: k the node class,   *)
(* s and s2 its names (identifier, operator, property, lifetime text), raw *)
(* a list of texts (the characters of an unconverted number, the parameter *)
(* names of a function), v a literal's value, kids the child nodes, p the  *)
(* priority, f the flag (is_debug, is_prefix, block-bodied).               *)
(***************************************************************************)
Node(k, s, s2, raw, v, kids, p, f) ==
  [s |-> s,
   v |-> v,
   k |-> k,
   p |-> p,
   s2 |-> s2,
   raw |-> raw,
   kids |-> kids,
   f |-> f]

RECURSIVE JoinChars(_)
JoinChars(cs) == IF cs = <<>> THEN "" ELSE Head(cs) \o JoinChars(Tail(cs))

\* NumberLiteral(int or float)
NumberLiteral(v) == Node("NumberLiteral", "", "", <<>>, v, <<>>, 0, FALSE)
\* NumberLiteral(str): the token text kept as it is (a fraction 'a/b', or
\* text int()/float() refused); raw holds its characters
RawNumberLiteral(raw) ==
  Node("NumberLiteral", "", "", raw, StrV(JoinChars(raw)), <<>>, 0, FALSE)
StringLiteral(s) == Node("StringLiteral", "", "", <<>>, StrV(s), <<>>, 0, FALSE)
BooleanLiteral(b) == Node("BooleanLiteral", "", "", <<>>, BoolV(b), <<>>, 0, FALSE)
MaybeLiteral == Node("MaybeLiteral", "", "", <<>>, NoneV, <<>>, 0, FALSE)
UndefinedLiteral == Node("UndefinedLiteral", "", "", <<>>, NoneV, <<>>, 0, FALSE)
NullLiteral == Node("NullLiteral", "", "", <<>>, NoneV, <<>>, 0, FALSE)
Identifier(name) == Node("Identifier", name, "", <<>>, NoneV, <<>>, 0, FALSE)
ArrayLiteral(elements) ==
  Node("ArrayLiteral", "", "", <<>>, NoneV, elements, 0, FALSE)
ArrayAccess(array, index) ==
  Node("ArrayAccess", "", "", <<>>, NoneV, <<array, index>>, 0, FALSE)
BinaryOperation(left, operator, right) ==
  Node("BinaryOperation", operator, "", <<>>, NoneV, <<left, right>>, 0, FALSE)
UnaryOperation(operator, operand) ==
  Node("UnaryOperation", operator, "", <<>>, NoneV, <<operand>>, 0, FALSE)
IncrementExpression(target, is_prefix) ==
  Node("IncrementExpression", "", "", <<>>, NoneV, <<target>>, 0, is_prefix)
DecrementExpression(target, is_prefix) ==
  Node("DecrementExpression", "", "", <<>>, NoneV, <<target>>, 0, is_prefix)
\* kids: the callee, then the arguments
FunctionCall(function, arguments) ==
  Node("FunctionCall", "", "", <<>>, NoneV, <<function>> \o arguments, 0, FALSE)
MemberAccess(object, property) ==
  Node("MemberAccess", property, "", <<>>, NoneV, <<object>>, 0, FALSE)
\* kids: the initial value, or none; raw: the characters of the lifetime
\* text, or none
VariableDeclaration(name, value, lifetime, priority) ==
  Node("VariableDeclaration", name, "", lifetime, NoneV, value, priority, FALSE)
\* raw: the parameter names; f: the body is a statement list (kids), else
\* kids is the one body expression
FunctionDeclaration(name, parameters, body, isBlock) ==
  Node("FunctionDeclaration", name, "", parameters, NoneV, body, 0, isBlock)
ClassDeclaration(name, body) ==
  Node("ClassDeclaration", name, "", <<>>, NoneV, body, 0, FALSE)
\* kids: the condition, then the then-body; the else-body is not kept: no
\* visitor reads an IfStatement
IfStatement(condition, then_body) ==
  Node("IfStatement", "", "", <<>>, NoneV, <<condition>> \o then_body, 0, FALSE)
WhenStatement(condition, body) ==
  Node("WhenStatement", "", "", <<>>, NoneV, <<condition>> \o body, 0, FALSE)
ReturnStatement(value) ==
  Node("ReturnStatement", "", "", <<>>, NoneV, value, 0, FALSE)
DeleteStatement(target) ==
  Node("DeleteStatement", "", "", <<>>, NoneV, <<target>>, 0, FALSE)
ImportStatement(name) == Node("ImportStatement", name, "", <<>>, NoneV, <<>>, 0, FALSE)
ExportStatement(name, target_file) ==
  Node("ExportStatement", name, target_file, <<>>, NoneV, <<>>, 0, FALSE)
ReverseStatement == Node("ReverseStatement", "", "", <<>>, NoneV, <<>>, 0, FALSE)
PreviousExpression(target) ==
  Node("PreviousExpression", "", "", <<>>, NoneV, <<target>>, 0, FALSE)
NextExpression(target) ==
  Node("NextExpression", "", "", <<>>, NoneV, <<target>>, 0, FALSE)
CurrentExpression(target) ==
  Node("CurrentExpression", "", "", <<>>, NoneV, <<target>>, 0, FALSE)
UseExpression(initial_value) ==
  Node("UseExpression", "", "", <<>>, NoneV, <<initial_value>>, 0, FALSE)
NewExpression(class_name, arguments) ==
  Node("NewExpression", class_name, "", <<>>, NoneV, arguments, 0, FALSE)
AwaitExpression(expression) ==
  Node("AwaitExpression", "", "", <<>>, NoneV, <<expression>>, 0, FALSE)
FileBlock(name, body) == Node("FileBlock", name, "", <<>>, NoneV, body, 0, FALSE)
GlobalConstantDeclaration(name, value, priority) ==
  Node("GlobalConstantDeclaration", name, "", <<>>, NoneV, <<value>>, priority, FALSE)
NoopStatement(content) ==
  Node("NoopStatement", content, "", <<>>, NoneV, <<>>, 0, FALSE)
ExpressionStatement(expression, priority, is_debug) ==
  Node("ExpressionStatement", "", "", <<>>, NoneV, <<expression>>, priority, is_debug)

\* no statement: the initial value of the variables that hold a node
NoNode == Node("", "", "", <<>>, NoneV, <<>>, 0, FALSE)

(***************************************************************************)
(* DreamBerdValue, the wrapper of a binding.  Wrappers are objects: two    *)
(* keys of a scope may name the same wrapper, so scopes hold references    *)
(* into a heap of wrappers.  The priority attribute exists only on the     *)
(* wrappers visit_VariableDeclaration made.                                *)
(***************************************************************************)
DreamBerdValue(value, has_lifetime, lifetime) ==
  [value |-> value,
   lifetime |-> lifetime,
   priority |-> 0,
   has_lifetime |-> has_lifetime,
   deleted |-> FALSE,
   history |-> <<value>>,
   has_priority |-> FALSE]

\* a wrapper that never expires
is_expired_never(w, now) == FALSE

is_expired(w, now) == w.has_lifetime /\ now > w.lifetime

\* set_value that writes the new value over the last entry of the history
set_value_rewriting(w, new_value) ==
  [w EXCEPT !.history = Append(SubSeq(w.history, 1, Len(w.history) - 1), new_value),
            !.value = new_value]

set_value(w, new_value) ==
  [w EXCEPT !.history = Append(w.history, new_value), !.value = new_value]

\* get_previous that returns the oldest value of the history
get_previous_oldest(w) ==
  IF Len(w.history) >= 2 THEN w.history[1] ELSE w.value

get_previous(w) ==
  IF Len(w.history) >= 2 THEN w.history[Len(w.history) - 1] ELSE w.value

\* the key of the shadow binding of a global constant
ShadowKey(name) == "__global_const_" \o name

(***************************************************************************)
(* The state of one DreamBerdInterpreter: a record, so that the visitors   *)
(* below can thread it through an evaluation.                              *)
(***************************************************************************)
number_names ==
  <<"zero", "one", "two", "three", "four", "five", "six", "seven", "eight",
    "nine", "ten", "eleven", "twelve">>

\* the global scope after _init_builtins: print, Date, zero .. twelve
BuiltinNames == <<"print", "Date">> \o number_names

BuiltinValue(i) ==
  IF i = 1 THEN BuiltinV("print")
  ELSE IF i = 2 THEN MkVal("DateObject", 0, 1, "", <<>>)
  ELSE IntV(i - 3)

InitInterpreter ==
  [deleted_values |-> {},
   now |-> 0,
   scope_stack |-> << [nm \in {BuiltinNames[i] : i \in 1..Len(BuiltinNames)} |->
                         CHOOSE i \in 1..Len(BuiltinNames) : BuiltinNames[i] = nm] >>,
   heap |-> [i \in 1..Len(BuiltinNames) |-> DreamBerdValue(BuiltinValue(i), FALSE, 0)],
   functions |-> <<>>,
   classes |-> <<>>,
   class_instances |-> <<>>,
   reversed |-> FALSE,
   output |-> <<>>,
   immutable_globals |-> {}]

current_scope(st) == st.scope_stack[Len(st.scope_stack)]

push_scope(st, scope) == [st EXCEPT !.scope_stack = Append(@, scope)]

\* pop_scope without its test of the length of the stack
pop_scope_always(st) ==
  [st EXCEPT !.scope_stack = SubSeq(@, 1, Len(@) - 1)]

pop_scope(st) ==
  IF Len(st.scope_stack) > 1
    THEN [st EXCEPT !.scope_stack = SubSeq(@, 1, Len(@) - 1)]
  ELSE st

\* a scope without one key
DelKey(scope, name) == [nm \in DOMAIN scope \ {name} |-> scope[nm]]

\* a scope with one key (re)bound
PutKey(scope, name, ref) == (name :> ref) @@ scope

\* get_variable from scope i outward: the state (bindings found expired are
\* removed), the fault, and the reference of the wrapper found
RECURSIVE GetVariableFrom(_, _, _)
GetVariableFrom(name, st, i) ==
  IF i = 0 THEN [err |-> "Undefined variable: " \o name, st |-> st, ref |-> 0]
  ELSE IF name \in DOMAIN st.scope_stack[i]
    THEN LET ref == st.scope_stack[i][name]
         IN  IF is_expired(st.heap[ref], st.now)
               THEN GetVariableFrom(name,
                      [st EXCEPT !.scope_stack[i] = DelKey(@, name)], i - 1)
             ELSE IF st.heap[ref].deleted
               THEN [err |-> "Variable '" \o name \o "' has been deleted",
                     st |-> st,
                     ref |-> 0]
             ELSE [err |-> NoFault, st |-> st, ref |-> ref]
  ELSE GetVariableFrom(name, st, i - 1)

get_variable(name, st) == GetVariableFrom(name, st, Len(st.scope_stack))

\* the innermost scope that holds the name, 0 if none does
RECURSIVE HoldingScope(_, _, _)
HoldingScope(name, scope_stack, i) ==
  IF i = 0 THEN 0
  ELSE IF name \in DOMAIN scope_stack[i] THEN i
  ELSE HoldingScope(name, scope_stack, i - 1)

\* a fresh wrapper on the heap, bound to the name in the global scope
BindNew_global(st, name, w) ==
  LET ref == Len(st.heap) + 1
  IN  [st EXCEPT !.heap = Append(@, w), !.scope_stack[1] = PutKey(@, name, ref)]

\* a fresh wrapper on the heap, bound to the name in the current scope
BindNew(st, name, w) ==
  LET ref == Len(st.heap) + 1
  IN  [st EXCEPT !.heap = Append(@, w),
                 !.scope_stack[Len(st.scope_stack)] = PutKey(@, name, ref)]

set_variable(st, name, w, create_new) ==
  IF create_new THEN BindNew(st, name, w)
  ELSE LET i == HoldingScope(name, st.scope_stack, Len(st.scope_stack))
       IN  IF i # 0
             THEN [st EXCEPT !.heap[st.scope_stack[i][name]] = set_value(@, w.value)]
           ELSE BindNew(st, name, w)

(***************************************************************************)
(* Python's int() and float() on the text of a number token.               *)
(***************************************************************************)
IsDigitChar(c) == \E i \in 1..10 : Digit[i] = c
DigitVal(c) == (CHOOSE i \in 1..10 : Digit[i] = c) - 1

RECURSIVE DigitsVal(_, _)
DigitsVal(cs, acc) ==
  IF cs = <<>> THEN acc ELSE DigitsVal(Tail(cs), acc * 10 + DigitVal(Head(cs)))

RECURSIVE Pow10(_)
Pow10(k) == IF k = 0 THEN 1 ELSE 10 * Pow10(k - 1)

\* the first position of character c in cs, 0 if there is none
RECURSIVE IndexOf(_, _, _)
IndexOf(cs, c, i) ==
  IF i > Len(cs) THEN 0 ELSE IF cs[i] = c THEN i ELSE IndexOf(cs, c, i + 1)

Contains(cs, c) == IndexOf(cs, c, 1) # 0

\* float(text): digits with at most one '.', at least one digit; any other
\* text of digits and dots is a ValueError
float_(cs) ==
  IF \E i \in 1..Len(cs) : ~IsDigitChar(cs[i]) /\ cs[i] # "."
    THEN [n |-> 0, d |-> 1, err |-> Unmodelled]
  ELSE LET dot == IndexOf(cs, ".", 1)
           ip == IF dot = 0 THEN cs ELSE SubSeq(cs, 1, dot - 1)
           fp == IF dot = 0 THEN <<>> ELSE SubSeq(cs, dot + 1, Len(cs))
       IN  IF Contains(fp, ".") \/ (ip = <<>> /\ fp = <<>>)
             THEN [n |-> 0, d |-> 1, err |-> "ValueError"]
           ELSE [n |-> DigitsVal(ip, 0) * Pow10(Len(fp)) + DigitsVal(fp, 0),
                 d |-> Pow10(Len(fp)),
                 err |-> NoFault]

\* text.split('/'): the first two parts
SplitSlash(cs) ==
  LET i == IndexOf(cs, "/", 1)
      rest == SubSeq(cs, i + 1, Len(cs))
      j == IndexOf(rest, "/", 1)
  IN  <<SubSeq(cs, 1, i - 1), IF j = 0 THEN rest ELSE SubSeq(rest, 1, j - 1)>>

(***************************************************************************)
(* The visitors.  Each takes a node and the interpreter state and yields   *)
(* the state after it, the exception it raised (err) or the value it       *)
(* returned (v).                                                           *)
(***************************************************************************)
Res(st, v) == [v |-> v, err |-> NoFault, st |-> st]
Fail(st, msg) == [v |-> NoneV, err |-> msg, st |-> st]
\* an outcome without state (arithmetic, comparison) placed in a state
Lift(st, r) == [v |-> r.v, err |-> r.err, st |-> st]

visit_NumberLiteral(node, st) ==
  IF node.raw # <<>> /\ Contains(node.raw, "/")
    THEN LET parts == SplitSlash(node.raw)
             a == float_(parts[1])
             b == float_(parts[2])
         IN  IF a.err # NoFault THEN Fail(st, a.err)
             ELSE IF b.err # NoFault THEN Fail(st, b.err)
             ELSE IF b.n = 0 THEN Fail(st, "float division by zero")
             ELSE Res(st, FloatV(a.n * b.d, a.d * b.n))
  ELSE Res(st, node.v)

visit_StringLiteral(node, st) == Res(st, node.v)

visit_BooleanLiteral(node, st) == Res(st, node.v)

\* Maybe(): an object whose truth is drawn at random
visit_MaybeLiteral(node, st) == Fail(st, Unmodelled)

visit_UndefinedLiteral(node, st) == Res(st, StrV("undefined"))

visit_NullLiteral(node, st) == Res(st, NoneV)

visit_Identifier(node, st) ==
  LET g == get_variable(node.s, st)
  IN  IF g.err # NoFault THEN Fail(g.st, g.err)
      ELSE Res(g.st, g.st.heap[g.ref].value)

\* an index read with no offset
ArrayIndex_zero_based(array, index) ==
  IF IsInt(index) /\ 0 <= index.n /\ index.n < Len(array.a)
    THEN Ok(array.a[index.n + 1])
  ELSE Raise("Array index out of bounds")

\* the element an index reads: lines 309-320
ArrayIndex(array, index) ==
  IF IsInt(index)
    THEN LET dreamberd_index == index.n + 1
         IN  IF 0 <= dreamberd_index /\ dreamberd_index < Len(array.a)
               THEN Ok(array.a[dreamberd_index + 1])
             ELSE Raise("Array index out of bounds")
  ELSE IF IsFloat(index)
    THEN LET base_index == Trunc(index.n, index.d) + 1
         IN  IF 0 <= base_index /\ base_index < Len(array.a)
               THEN Ok(array.a[base_index + 1])
             ELSE Raise("Array index out of bounds")
  ELSE Raise("Array index out of bounds")

\* print(*args): one line, the str() of the arguments joined by a space
RECURSIVE JoinStr(_, _)
JoinStr(args, i) ==
  IF i > Len(args) THEN ""
  ELSE (IF i > 1 THEN " " ELSE "") \o PyStr(args[i]) \o JoinStr(args, i + 1)

\* a print that leaves the log alone
builtin_print_silent(st, args) == Res(st, NoneV)

builtin_print(st, args) ==
  Res([st EXCEPT !.output = Append(@, JoinStr(args, 1))], NoneV)

\* the line a '?' statement adds
DebugInfo(v) == "DEBUG: " \o PyStr(v) \o " (type: " \o v.t \o ")"

\* the signal a use-expression makes: a callable Python object with its own
\* value attribute, kept in a heap cell; n is the cell's reference
SignalV(ref) == MkVal("function", ref, 1, "signal", <<>>)

\* a signal whose setter returns its argument without storing it
signal_forgetful(st, f, args) ==
  IF Len(args) > 0 THEN Res(st, args[1]) ELSE Res(st, st.heap[f.n].value)

signal(st, f, args) ==
  IF Len(args) > 0
    THEN Res([st EXCEPT !.heap[f.n] = [@ EXCEPT !.value = args[1]]], args[1])
  ELSE Res(st, st.heap[f.n].value)

\* an instance record: the dict of the names of a scope to their values
DictV(scope, heap) ==
  MkVal("dict", 0, 1, "", << [nm \in DOMAIN scope |-> heap[scope[nm]].value] >>)

\* hasattr / getattr on the values of the model: Date.now(), and "size",
\* which no value of the model has
Date_now(st) == FloatV(st.now * 1000, 1)

(***************************************************************************)
(* parse_lifetime: the expiry time of a lifetime text (its characters).    *)
(***************************************************************************)
UpperCase == <<"A", "B", "C", "D", "E", "F", "G", "H", "I", "J", "K", "L", "M",
               "N", "O", "P", "Q", "R", "S", "T", "U", "V", "W", "X", "Y", "Z">>
LowerCase == <<"a", "b", "c", "d", "e", "f", "g", "h", "i", "j", "k", "l", "m",
               "n", "o", "p", "q", "r", "s", "t", "u", "v", "w", "x", "y", "z">>

LowerChar(c) ==
  IF \E i \in 1..26 : UpperCase[i] = c
    THEN LowerCase[CHOOSE i \in 1..26 : UpperCase[i] = c]
  ELSE c

Lower(cs) == [i \in 1..Len(cs) |-> LowerChar(cs[i])]

\* float(text) as a whole number of seconds, times a unit
Seconds(st, cs, unit) ==
  LET x == float_(cs)
  IN  IF x.err # NoFault THEN [err |-> x.err, has |-> FALSE, at |-> 0]
      ELSE IF (x.n * unit) % x.d # 0 THEN [err |-> Unmodelled, has |-> FALSE, at |-> 0]
      ELSE [err |-> NoFault, has |-> TRUE, at |-> st.now + (x.n * unit) \div x.d]

\* int(text) of the last branches: a ValueError there is caught
IsDigits(cs) == cs # <<>> /\ \A i \in 1..Len(cs) : IsDigitChar(cs[i])

parse_lifetime(st, lifetime_str) ==
  LET never == [err |-> NoFault, has |-> FALSE, at |-> 0]
      last == lifetime_str[Len(lifetime_str)]
      init == SubSeq(lifetime_str, 1, Len(lifetime_str) - 1)
  IN
  IF lifetime_str = <<>> THEN never
  ELSE IF Lower(lifetime_str) = <<"i", "n", "f", "i", "n", "i", "t", "y">> THEN never
  ELSE IF Head(lifetime_str) = "-"
    THEN IF IsDigits(Tail(lifetime_str))
           THEN [err |-> NoFault, has |-> TRUE,
                 at |-> st.now + DigitsVal(Tail(lifetime_str), 0)]
         ELSE [err |-> "ValueError", has |-> FALSE, at |-> 0]
  ELSE IF last = "s" THEN Seconds(st, init, 1)
  ELSE IF last = "m" THEN Seconds(st, init, 60)
  ELSE IF last = "h" THEN Seconds(st, init, 3600)
  ELSE IF IsDigits(lifetime_str)
    THEN [err |-> NoFault, has |-> TRUE, at |-> st.now + DigitsVal(lifetime_str, 0)]
  ELSE never

(***************************************************************************)
(* The visitors that evaluate child nodes.                                 *)
(***************************************************************************)
RECURSIVE visit(_, _)
RECURSIVE VisitAll(_, _, _, _)
RECURSIVE VisitBody(_, _, _, _, _)
RECURSIVE VisitBody_past_faults(_, _, _, _, _)

\* [self.visit(x) for x in nodes]: the values, left to right, from i on
VisitAll(nodes, i, st, acc) ==
  IF i > Len(nodes) THEN Res(st, acc)
  ELSE LET r == visit(nodes[i], st)
       IN  IF r.err # NoFault THEN r
           ELSE VisitAll(nodes, i + 1, r.st, Append(acc, r.v))

\* for stmt in body: result = self.visit(stmt), from statement i on; a
\* function body stops after a ReturnStatement of its own list
\* a body that goes on to its next statement after one has raised
VisitBody_past_faults(body, i, st, result, stopAtReturn) ==
  IF i > Len(body) THEN Res(st, result)
  ELSE LET r == visit(body[i], st)
       IN  VisitBody_past_faults(body, i + 1, r.st, r.v, stopAtReturn)

VisitBody(body, i, st, result, stopAtReturn) ==
  IF i > Len(body) THEN Res(st, result)
  ELSE LET r == visit(body[i], st)
       IN  IF r.err # NoFault THEN r
           ELSE IF stopAtReturn /\ body[i].k = "ReturnStatement" THEN r
           ELSE VisitBody(body, i + 1, r.st, r.v, stopAtReturn)

visit_ArrayLiteral(node, st) ==
  LET r == VisitAll(node.kids, 1, st, <<>>)
  IN  IF r.err # NoFault THEN r ELSE Res(r.st, ListV(r.v))

visit_ArrayAccess(node, st) ==
  LET array == visit(node.kids[1], st)
  IN
  IF array.err # NoFault THEN array
  ELSE
  LET index == visit(node.kids[2], array.st)
  IN
  IF index.err # NoFault THEN index
  ELSE IF ~IsList(array.v) THEN Fail(index.st, "Can only index arrays")
  ELSE Lift(index.st, ArrayIndex(array.v, index.v))

\* an '=' that assigns to the variable on its left
visit_BinaryOperation_assigning(node, st) ==
  LET left == visit(node.kids[1], st)
  IN
  IF left.err # NoFault THEN left
  ELSE
  LET right == visit(node.kids[2], left.st)
  IN
  IF right.err # NoFault THEN right
  ELSE IF node.s = "=" /\ node.kids[1].k = "Identifier"
    THEN LET g == get_variable(node.kids[1].s, right.st)
         IN  Res([g.st EXCEPT !.heap[g.ref] = set_value(@, right.v)], right.v)
  ELSE Lift(right.st, evaluate_comparison(left.v, node.s, right.v))

\* the values of two literal nodes are two objects, each made by the parser
\* from its own token
Apart(left, right) ==
  /\ left.k \in {"NumberLiteral", "StringLiteral"}
  /\ right.k \in {"NumberLiteral", "StringLiteral"}

visit_BinaryOperation(node, st) ==
  LET left == visit(node.kids[1], st)
  IN
  IF left.err # NoFault THEN left
  ELSE
  LET right == visit(node.kids[2], left.st)
  IN
  IF right.err # NoFault THEN right
  ELSE IF node.s = "&&"
    THEN Res(right.st, IF Truthy(left.v) THEN right.v ELSE left.v)
  ELSE IF node.s = "||"
    THEN Res(right.st, IF Truthy(left.v) THEN left.v ELSE right.v)
  ELSE IF node.s = "====" /\ Apart(node.kids[1], node.kids[2])
    THEN Res(right.st, BoolV(IsSame(left.v, right.v)))
  ELSE IF node.s \in {"=", "==", "===", "====", "!=", "<", ">", "<=", ">="}
    THEN Lift(right.st, evaluate_comparison(left.v, node.s, right.v))
  ELSE Lift(right.st,
            evaluate_arithmetic(left.v, node.s, right.v, right.st.deleted_values))

visit_UnaryOperation(node, st) ==
  LET operand == visit(node.kids[1], st)
  IN
  IF operand.err # NoFault THEN operand
  ELSE IF node.s = ";" THEN Res(operand.st, BoolV(~Truthy(operand.v)))
  ELSE IF node.s = "-"
    THEN IF IsInt(operand.v) THEN Res(operand.st, IntV(-operand.v.n))
         ELSE IF IsFloat(operand.v)
           THEN Res(operand.st, FloatV(-operand.v.n, operand.v.d))
         ELSE Fail(operand.st, "TypeError")
  ELSE IF node.s = "+"
    THEN IF IsInt(operand.v) THEN Res(operand.st, IntV(operand.v.n))
         ELSE IF IsFloat(operand.v) THEN operand
         ELSE Fail(operand.st, "TypeError")
  ELSE operand

\* the scope of a call: parameter i bound to argument i while there is one
RECURSIVE BindParameters(_, _, _, _, _)
BindParameters(parameters, args, i, heap, scope) ==
  IF i > Len(parameters) \/ i > Len(args) THEN [heap |-> heap, scope |-> scope]
  ELSE BindParameters(parameters, args, i + 1,
                      Append(heap, DreamBerdValue(args[i], FALSE, 0)),
                      PutKey(scope, parameters[i], Len(heap) + 1))

\* call_function without its finally: the scope is popped only when the
\* body ends without a fault
call_function_no_finally(func_decl, args, st) ==
  LET b == BindParameters(func_decl.raw, args, 1, st.heap, <<>>)
      pushed == push_scope([st EXCEPT !.heap = b.heap], b.scope)
      r == IF func_decl.f
             THEN VisitBody(func_decl.kids, 1, pushed, NoneV, TRUE)
           ELSE visit(func_decl.kids[1], pushed)
  IN  IF r.err # NoFault THEN r ELSE [r EXCEPT !.st = pop_scope(r.st)]

\* call_function with a loop that does not break at a return statement
call_function_past_return(func_decl, args, st) ==
  LET b == BindParameters(func_decl.raw, args, 1, st.heap, <<>>)
      pushed == push_scope([st EXCEPT !.heap = b.heap], b.scope)
      r == IF func_decl.f
             THEN VisitBody(func_decl.kids, 1, pushed, NoneV, FALSE)
           ELSE visit(func_decl.kids[1], pushed)
  IN  [r EXCEPT !.st = pop_scope(r.st)]

call_function(func_decl, args, st) ==
  LET b == BindParameters(func_decl.raw, args, 1, st.heap, <<>>)
      pushed == push_scope([st EXCEPT !.heap = b.heap], b.scope)
      r == IF func_decl.f
             THEN VisitBody(func_decl.kids, 1, pushed, NoneV, TRUE)
           ELSE visit(func_decl.kids[1], pushed)
  IN  \* finally: self.pop_scope()
      [r EXCEPT !.st = pop_scope(r.st)]

visit_FunctionCall(node, st) ==
  IF node.kids[1].k # "Identifier" THEN Fail(st, "Invalid function call")
  ELSE
  LET func_name == node.kids[1].s
      g == get_variable(func_name, st)
  IN
  IF g.err # NoFault THEN Fail(g.st, "Undefined function: " \o func_name)
  ELSE
  LET func == g.st.heap[g.ref].value
      args == VisitAll(node.kids, 2, g.st, <<>>)
  IN
  IF args.err # NoFault THEN args
  ELSE IF func.t = "function" /\ func.s = "print" THEN builtin_print(args.st, args.v)
  ELSE IF func.t = "function" /\ func.s = "signal" THEN signal(args.st, func, args.v)
  ELSE IF func.t = "FunctionDeclaration" THEN call_function(func.a[1], args.v, args.st)
  ELSE Fail(args.st, "Invalid function call")

visit_MemberAccess(node, st) ==
  LET obj == visit(node.kids[1], st)
  IN
  IF obj.err # NoFault THEN obj
  ELSE IF obj.v.t = "DateObject" /\ node.s = "now" THEN Res(obj.st, Date_now(obj.st))
  ELSE IF node.s = "size"
    THEN Fail(obj.st, "Property '" \o node.s \o "' not found")
  ELSE Fail(obj.st, Unmodelled)

\* a declaration that always overwrites
KeepsExisting_never(node_priority, existing_priority) == FALSE

\* line 456: the declaration does not overwrite the binding it found
KeepsExisting(node_priority, existing_priority) == node_priority <= existing_priority

visit_VariableDeclaration(node, st) ==
  LET g == get_variable(node.s, st)
      existing_var == g.err = NoFault
  IN
  IF /\ existing_var
     /\ g.st.heap[g.ref].has_priority
     /\ KeepsExisting(node.p, g.st.heap[g.ref].priority)
    THEN Res(g.st, NoneV)
  ELSE
  LET value == IF node.kids # <<>> THEN visit(node.kids[1], g.st) ELSE Res(g.st, NoneV)
  IN
  IF value.err # NoFault THEN value
  ELSE
  LET lifetime == parse_lifetime(value.st, node.raw)
  IN
  IF lifetime.err # NoFault THEN Fail(value.st, lifetime.err)
  ELSE
  LET dreamberd_value ==
        [DreamBerdValue(value.v, lifetime.has, lifetime.at)
           EXCEPT !.has_priority = TRUE, !.priority = node.p]
  IN  Res(set_variable(value.st, node.s, dreamberd_value, TRUE), NoneV)

visit_FunctionDeclaration(node, st) ==
  LET bound == set_variable(st, node.s, DreamBerdValue(FuncDeclV(node), FALSE, 0), TRUE)
  IN  Res([bound EXCEPT !.functions = (node.s :> node) @@ @], NoneV)

visit_ClassDeclaration(node, st) ==
  Res([st EXCEPT !.classes = (node.s :> node) @@ @], NoneV)

visit_ExpressionStatement(node, st) ==
  LET result == visit(node.kids[1], st)
  IN  IF result.err # NoFault THEN result
      ELSE IF node.f
        THEN Res([result.st EXCEPT !.output = Append(@, DebugInfo(result.v))], result.v)
      ELSE result

visit_ReturnStatement(node, st) ==
  IF node.kids # <<>> THEN visit(node.kids[1], st) ELSE Res(st, NoneV)

visit_DeleteStatement(node, st) ==
  IF node.kids[1].k = "Identifier"
    THEN LET g == get_variable(node.kids[1].s, st)
         IN  IF g.err # NoFault THEN Res(g.st, NoneV)
             ELSE Res([g.st EXCEPT !.heap[g.ref].deleted = TRUE], NoneV)
  ELSE IF node.kids[1].k = "NumberLiteral"
    THEN LET value == visit(node.kids[1], st)
         IN  IF value.err # NoFault THEN value
             ELSE Res([value.st EXCEPT !.deleted_values = @ \cup {value.v}], NoneV)
  ELSE Res(st, NoneV)

visit_ReverseStatement(node, st) == Res([st EXCEPT !.reversed = ~@], NoneV)

visit_PreviousExpression(node, st) ==
  IF node.kids[1].k = "Identifier"
    THEN LET g == get_variable(node.kids[1].s, st)
         IN  IF g.err # NoFault THEN Fail(g.st, g.err)
             ELSE Res(g.st, get_previous(g.st.heap[g.ref]))
  ELSE Fail(st, "Previous can only be used with variables")

visit_CurrentExpression(node, st) == visit(node.kids[1], st)

visit_UseExpression(node, st) ==
  LET initial_value == visit(node.kids[1], st)
  IN  IF initial_value.err # NoFault THEN initial_value
      ELSE Res([initial_value.st EXCEPT
                  !.heap = Append(@, DreamBerdValue(initial_value.v, FALSE, 0))],
               SignalV(Len(initial_value.st.heap) + 1))

\* visit_NewExpression without the single-instance check
visit_NewExpression_again(node, st) ==
  LET class_name == node.s
  IN
  IF class_name \notin DOMAIN st.classes
    THEN Fail(st, "Undefined class: " \o class_name)
  ELSE
  LET r == VisitBody(st.classes[class_name].kids, 1, push_scope(st, <<>>), NoneV, FALSE)
  IN
  IF r.err # NoFault THEN [r EXCEPT !.st = pop_scope(r.st)]
  ELSE LET instance == DictV(current_scope(r.st), r.st.heap)
       IN  Res([pop_scope(r.st) EXCEPT
                  !.class_instances = (class_name :> instance) @@ @],
               instance)

visit_NewExpression(node, st) ==
  LET class_name == node.s
  IN
  IF class_name \notin DOMAIN st.classes
    THEN Fail(st, "Undefined class: " \o class_name)
  ELSE IF class_name \in DOMAIN st.class_instances
    THEN Fail(st, "Can't have more than one '" \o class_name \o "' instance!")
  ELSE
  LET r == VisitBody(st.classes[class_name].kids, 1, push_scope(st, <<>>), NoneV, FALSE)
  IN
  \* finally: self.pop_scope()
  IF r.err # NoFault THEN [r EXCEPT !.st = pop_scope(r.st)]
  ELSE LET instance == DictV(current_scope(r.st), r.st.heap)
       IN  Res([pop_scope(r.st) EXCEPT
                  !.class_instances = (class_name :> instance) @@ @],
               instance)

visit_FileBlock(node, st) ==
  LET r == VisitBody(node.kids, 1, push_scope(st, <<>>), NoneV, FALSE)
  IN  \* finally: self.pop_scope()
      [r EXCEPT !.st = pop_scope(r.st)]

visit_NoopStatement(node, st) == Res(st, NoneV)

visit_GlobalConstantDeclaration(node, st) ==
  LET value == visit(node.kids[1], st)
  IN
  IF value.err # NoFault THEN value
  ELSE
  LET ref == Len(value.st.heap) + 1
  IN  Res([value.st EXCEPT
             !.heap = Append(@, DreamBerdValue(value.v, FALSE, 0)),
             !.scope_stack[1] = PutKey(PutKey(@, ShadowKey(node.s), ref), node.s, ref),
             !.immutable_globals = @ \cup {node.s}],
          NoneV)

\* the value ++ or -- stores: the current value plus delta
Stepped(current_value, delta) ==
  IF IsInt(current_value) THEN IntV(current_value.n + delta)
  ELSE FloatV(current_value.n + delta * current_value.d, current_value.d)

\* an increment that yields the value it found
IncDecResult_old_value(is_prefix, current_value, new_value) == current_value

\* lines 640-648 and 662-670: what the expression yields
IncDecResult(is_prefix, current_value, new_value) ==
  IF is_prefix THEN new_value ELSE current_value

\* visit_IncrementExpression (delta 1) and visit_DecrementExpression (-1)
visit_IncDec(node, st, delta) ==
  IF node.kids[1].k # "Identifier"
    THEN Fail(st, IF delta = 1 THEN "Can only increment variables"
                  ELSE "Can only decrement variables")
  ELSE
  LET g == get_variable(node.kids[1].s, st)
  IN
  IF g.err # NoFault THEN Fail(g.st, g.err)
  ELSE
  LET current_value == g.st.heap[g.ref].value
      new_value == Stepped(current_value, delta)
  IN
  IF ~IsNum(current_value)
    THEN Fail(g.st, (IF delta = 1 THEN "Cannot increment non-numeric value: "
                     ELSE "Cannot decrement non-numeric value: ")
                    \o "<class '" \o current_value.t \o "'>")
  ELSE Res([g.st EXCEPT !.heap[g.ref] = set_value(@, new_value)],
           IncDecResult(node.f, current_value, new_value))

visit_IncrementExpression(node, st) == visit_IncDec(node, st, 1)

visit_DecrementExpression(node, st) == visit_IncDec(node, st, -1)

\* no visit_<class> method: IfStatement, WhenStatement, ImportStatement,
\* ExportStatement, NextExpression, AwaitExpression
generic_visit(node, st) == Fail(st, "No visitor for " \o node.k)

visit(node, st) ==
  CASE node.k = "NumberLiteral" -> visit_NumberLiteral(node, st)
    [] node.k = "StringLiteral" -> visit_StringLiteral(node, st)
    [] node.k = "BooleanLiteral" -> visit_BooleanLiteral(node, st)
    [] node.k = "MaybeLiteral" -> visit_MaybeLiteral(node, st)
    [] node.k = "UndefinedLiteral" -> visit_UndefinedLiteral(node, st)
    [] node.k = "NullLiteral" -> visit_NullLiteral(node, st)
    [] node.k = "Identifier" -> visit_Identifier(node, st)
    [] node.k = "ArrayLiteral" -> visit_ArrayLiteral(node, st)
    [] node.k = "ArrayAccess" -> visit_ArrayAccess(node, st)
    [] node.k = "BinaryOperation" -> visit_BinaryOperation(node, st)
    [] node.k = "UnaryOperation" -> visit_UnaryOperation(node, st)
    [] node.k = "FunctionCall" -> visit_FunctionCall(node, st)
    [] node.k = "MemberAccess" -> visit_MemberAccess(node, st)
    [] node.k = "VariableDeclaration" -> visit_VariableDeclaration(node, st)
    [] node.k = "FunctionDeclaration" -> visit_FunctionDeclaration(node, st)
    [] node.k = "ClassDeclaration" -> visit_ClassDeclaration(node, st)
    [] node.k = "ExpressionStatement" -> visit_ExpressionStatement(node, st)
    [] node.k = "ReturnStatement" -> visit_ReturnStatement(node, st)
    [] node.k = "DeleteStatement" -> visit_DeleteStatement(node, st)
    [] node.k = "ReverseStatement" -> visit_ReverseStatement(node, st)
    [] node.k = "PreviousExpression" -> visit_PreviousExpression(node, st)
    [] node.k = "CurrentExpression" -> visit_CurrentExpression(node, st)
    [] node.k = "UseExpression" -> visit_UseExpression(node, st)
    [] node.k = "NewExpression" -> visit_NewExpression(node, st)
    [] node.k = "FileBlock" -> visit_FileBlock(node, st)
    [] node.k = "NoopStatement" -> visit_NoopStatement(node, st)
    [] node.k = "GlobalConstantDeclaration" -> visit_GlobalConstantDeclaration(node, st)
    [] node.k = "IncrementExpression" -> visit_IncrementExpression(node, st)
    [] node.k = "DecrementExpression" -> visit_DecrementExpression(node, st)
    [] OTHER -> generic_visit(node, st)

(***************************************************************************)
(* dreamberd_lexer.py.  The source is a sequence of characters; a cursor   *)
(* is the lexer's pos (counted from 0 as the code counts it), line and     *)
(* column; a token's value is the sequence of its characters.              *)
(***************************************************************************)
Token(type, value, line, column, priority) ==
  [value |-> value,
   priority |-> priority,
   type |-> type,
   line |-> line,
   column |-> column]

isdigit(c) == IsDigitChar(c)
isalpha(c) == \E i \in 1..26 : UpperCase[i] = c \/ LowerCase[i] = c
isalnum(c) == isdigit(c) \/ isalpha(c)

\* self.keywords: looked up by the lower-cased word, so that the keys with a
\* capital are never found
keywords ==
  [w \in {"const", "var", "function", "func", "fun", "fn", "functi", "f", "union",
          "class", "className", "if", "else", "when", "return", "print", "delete",
          "import", "export", "to", "reverse", "previous", "next", "current",
          "async", "noop", "use", "new", "await", "true", "false", "maybe",
          "True", "False", "undefined", "null"} |->
     IF w = "className" THEN "CLASSNAME"
     ELSE IF w \in {"true", "false", "True", "False"} THEN "BOOLEAN"
     ELSE IF w \in {"undefined", "null"} THEN "IDENTIFIER"
     ELSE CASE w = "const" -> "CONST" [] w = "var" -> "VAR"
            [] w = "function" -> "FUNCTION" [] w = "func" -> "FUNC"
            [] w = "fun" -> "FUN" [] w = "fn" -> "FN" [] w = "functi" -> "FUNCTI"
            [] w = "f" -> "F" [] w = "union" -> "UNION" [] w = "class" -> "CLASS"
            [] w = "if" -> "IF" [] w = "else" -> "ELSE" [] w = "when" -> "WHEN"
            [] w = "return" -> "RETURN" [] w = "print" -> "PRINT"
            [] w = "delete" -> "DELETE" [] w = "import" -> "IMPORT"
            [] w = "export" -> "EXPORT" [] w = "to" -> "TO"
            [] w = "reverse" -> "REVERSE" [] w = "previous" -> "PREVIOUS"
            [] w = "next" -> "NEXT" [] w = "current" -> "CURRENT"
            [] w = "async" -> "ASYNC" [] w = "noop" -> "NOOP" [] w = "use" -> "USE"
            [] w = "new" -> "NEW" [] w = "await" -> "AWAIT" [] w = "maybe" -> "MAYBE"]

\* "" stands for the None the code gets past the end of the source
current_char(source, pos) == IF pos >= Len(source) THEN "" ELSE source[pos + 1]

peek_char(source, pos) == current_char(source, pos + 1)

Cursor(pos, line, column) == [line |-> line, column |-> column, pos |-> pos]

advance(source, c) ==
  IF c.pos < Len(source) /\ source[c.pos + 1] = "\n"
    THEN Cursor(c.pos + 1, c.line + 1, 1)
  ELSE Cursor(c.pos + 1, c.line, c.column + 1)

RECURSIVE AdvanceBy(_, _, _)
AdvanceBy(source, c, n) ==
  IF n = 0 THEN c ELSE AdvanceBy(source, advance(source, c), n - 1)

\* the characters from pos on that pass the test of a while loop
RECURSIVE TakeWhile(_, _, _)
TakeWhile(source, pos, chars) ==
  IF current_char(source, pos) \in chars
    THEN <<current_char(source, pos)>> \o TakeWhile(source, pos + 1, chars)
  ELSE <<>>

Letters == {UpperCase[i] : i \in 1..26} \cup {LowerCase[i] : i \in 1..26}
Digits == {Digit[i] : i \in 1..10}

skip_whitespace(source, c) ==
  AdvanceBy(source, c, Len(TakeWhile(source, c.pos, {" ", "\t"})))

\* the texts read_number gives the number names (it is called at a digit,
\* where no name starts)
number_values ==
  [w \in {number_names[i] : i \in 1..13} |->
     LET i == CHOOSE k \in 1..13 : number_names[k] = w
     IN  IF i <= 10 THEN <<Digit[i]>> ELSE <<"1", Digit[i - 10]>>]

\* what a read_* method gives: the token and the cursor after it
Lexed(tok, cur) == [tok |-> tok, cur |-> cur]

read_number(source, c) ==
  LET word == TakeWhile(source, c.pos, Letters)
  IN
  IF JoinChars(Lower(word)) \in DOMAIN number_values
    THEN Lexed(Token("NUMBER", number_values[JoinChars(Lower(word))], c.line, c.column, 0),
               AdvanceBy(source, c, Len(word)))
  ELSE
  LET whole == TakeWhile(source, c.pos, Digits \cup {"."})
      c1 == AdvanceBy(source, c, Len(whole))
      fraction ==
        IF current_char(source, c1.pos) = "/" /\ isdigit(peek_char(source, c1.pos))
          THEN <<"/">> \o TakeWhile(source, c1.pos + 1, Digits)
        ELSE <<>>
  IN  Lexed(Token("NUMBER", whole \o fraction, c.line, c.column, 0),
            AdvanceBy(source, c1, Len(fraction)))

\* the loop of read_string, after the opening quotes
RECURSIVE StringBody(_, _, _, _, _, _)
StringBody(source, c, quote_char, quote_count, value, start) ==
  LET char == current_char(source, c.pos)
  IN
  IF char = ""
    THEN Lexed(Token("STRING", value, start.line, start.column, 0), c)
  ELSE IF char = quote_char
         /\ Len(TakeWhile(source, c.pos, {quote_char})) >= quote_count
    THEN Lexed(Token("STRING", value, start.line, start.column, 0),
               AdvanceBy(source, c, quote_count))
  ELSE StringBody(source, advance(source, c), quote_char, quote_count,
                  Append(value, char), start)

read_string(source, c, quote_char) ==
  LET c1 == advance(source, c)
      more == Len(TakeWhile(source, c1.pos, {quote_char}))
  IN  StringBody(source, AdvanceBy(source, c1, more), quote_char, 1 + more, <<>>, c)

const == <<"c", "o", "n", "s", "t">>

\* the cursor after a further word "const", or the cursor given when the
\* next word is another
SkipConst(source, c) ==
  LET c1 == skip_whitespace(source, c)
      next_word == TakeWhile(source, c1.pos, Letters)
  IN  IF Lower(next_word) = const THEN AdvanceBy(source, c1, Len(next_word)) ELSE c

read_identifier(source, c) ==
  LET value == TakeWhile(source, c.pos, Letters \cup Digits \cup {"_", "$"})
      c1 == AdvanceBy(source, c, Len(value))
      c2 == SkipConst(source, c1)
      c3 == SkipConst(source, c2)
      word == JoinChars(Lower(value))
  IN
  IF Lower(value) = const /\ c2 # c1 /\ c3 # c2
    THEN Lexed(Token("CONST_CONST_CONST", const \o <<" ">> \o const \o <<" ">> \o const,
                     c.line, c.column, 0), c3)
  ELSE Lexed(Token(IF word \in DOMAIN keywords THEN keywords[word] ELSE "IDENTIFIER",
                   value, c.line, c.column, 0), c1)

read_exclamation_marks(source, c) ==
  LET marks == TakeWhile(source, c.pos, {"!"})
  IN  Lexed(Token("EXCLAMATION", marks, c.line, c.column, Len(marks)),
            AdvanceBy(source, c, Len(marks)))

\* the one-character tokens of tokenize, and the two-character ones that
\* start with the same character
SingleCharacter ==
  [c \in {"*", "/", "^", "%", ",", ".", ":", "(", ")", "{", "}", "[", "]", "$", "?", ";"}
     |-> CASE c = "*" -> "MULTIPLY" [] c = "/" -> "DIVIDE" [] c = "^" -> "POWER"
           [] c = "%" -> "MODULO" [] c = "," -> "COMMA" [] c = "." -> "DOT"
           [] c = ":" -> "COLON" [] c = "(" -> "LPAREN" [] c = ")" -> "RPAREN"
           [] c = "{" -> "LBRACE" [] c = "}" -> "RBRACE" [] c = "[" -> "LBRACKET"
           [] c = "]" -> "RBRACKET" [] c = "$" -> "DOLLAR" [] c = "?" -> "QUESTION"
           [] c = ";" -> "NOT"]

Doubled ==
  [c \in {"+", "-", "<", ">"} |->
     CASE c = "+" -> <<"+", "INCREMENT", "PLUS">>
       [] c = "-" -> <<"-", "DECREMENT", "MINUS">>
       [] c = "<" -> <<"=", "LESS_EQUAL", "LESS_THAN">>
       [] c = ">" -> <<"=", "GREATER_EQUAL", "GREATER_THAN">>]

\* the token of a run of n '='
\* a classification of runs that knows no file separator
EqualsRun_no_separator(n) ==
  IF n >= 4 THEN "SUPER_STRICT_EQUAL"
  ELSE IF n = 3 THEN "STRICT_EQUAL"
  ELSE IF n = 2 THEN "LOOSE_EQUAL"
  ELSE "ASSIGN"

EqualsRun(n) ==
  IF n >= 5 THEN "FILE_SEPARATOR"
  ELSE IF n = 4 THEN "SUPER_STRICT_EQUAL"
  ELSE IF n = 3 THEN "STRICT_EQUAL"
  ELSE IF n = 2 THEN "LOOSE_EQUAL"
  ELSE "ASSIGN"

\* one turn of the loop of tokenize, after skip_whitespace, at a character:
\* the tokens it appends (one or none) and the cursor after it
tokenize_char(source, c) ==
  LET char == current_char(source, c.pos)
      one == Lexed(<<Token("", <<char>>, c.line, c.column, 0)>>, advance(source, c))
      Typed(type) == [one EXCEPT !.tok[1].type = type]
      Single(r) == Lexed(<<r.tok>>, r.cur)
  IN
  IF char = "\n" THEN Typed("NEWLINE")
  ELSE IF char = "/" /\ peek_char(source, c.pos) = "/"
    THEN Lexed(<<>>,
               AdvanceBy(source, c,
                         Len(TakeWhile(source, c.pos,
                                       {source[i] : i \in 1..Len(source)} \ {"\n"}))))
  ELSE IF isdigit(char) THEN Single(read_number(source, c))
  ELSE IF char \in {"\"", "'"} THEN Single(read_string(source, c, char))
  ELSE IF isalpha(char) THEN Single(read_identifier(source, c))
  ELSE IF char = "=" /\ peek_char(source, c.pos) = ">"
    THEN Lexed(<<Token("ARROW", <<"=", ">">>, c.line, c.column, 0)>>,
               AdvanceBy(source, c, 2))
  ELSE IF char = "="
    THEN LET run == TakeWhile(source, c.pos, {"="})
         IN  Lexed(<<Token(EqualsRun(Len(run)), run, c.line, c.column, 0)>>,
                   AdvanceBy(source, c, Len(run)))
  ELSE IF char = "!" THEN Single(read_exclamation_marks(source, c))
  ELSE IF char = "¡"
    THEN Lexed(<<Token("INVERTED_EXCLAMATION", <<char>>, c.line, c.column, -1)>>,
               advance(source, c))
  ELSE IF char \in DOMAIN Doubled
    THEN IF peek_char(source, c.pos) = Doubled[char][1]
           THEN Lexed(<<Token(Doubled[char][2], <<char, Doubled[char][1]>>,
                              c.line, c.column, 0)>>,
                      AdvanceBy(source, c, 2))
         ELSE Typed(Doubled[char][3])
  ELSE IF char \in DOMAIN SingleCharacter THEN Typed(SingleCharacter[char])
  ELSE IF char = "£" THEN Typed("POUND")
  ELSE IF char = "¥" THEN Typed("YEN")
  ELSE IF char = "€" THEN Typed("EURO")
  ELSE Lexed(<<>>, advance(source, c))

(***************************************************************************)
(* dreamberd_parser.py: the expressions.  A parse method is an operator of *)
(* the tokens and the parser's pos (from 0, as in the code); it yields the *)
(* node, the pos after it and the text of the ParseError it raised.        *)
(***************************************************************************)
Parsed(node, pos) == [node |-> node, err |-> NoFault, pos |-> pos]

\* ParseError(message, token): the text of the exception
ParseError(message, token) ==
  "Parse error at line " \o IntToStr(token.line) \o ", column "
    \o IntToStr(token.column) \o ": " \o message

Raised(tokens, pos, message) ==
  [node |-> NoNode, err |-> ParseError(message, tokens[pos + 1]), pos |-> pos]

match(tokens, pos, token_types) == tokens[pos + 1].type \in token_types

\* DreamBerdParser.advance
next_pos(tokens, pos) == IF pos < Len(tokens) - 1 THEN pos + 1 ELSE pos

RECURSIVE skip_newlines(_, _)
skip_newlines(tokens, pos) ==
  IF match(tokens, pos, {"NEWLINE"}) THEN skip_newlines(tokens, next_pos(tokens, pos))
  ELSE pos

\* the token types the loops of parse_or ... parse_power continue on
LevelOperators ==
  <<{"OR"}, {"AND"},
    {"ASSIGN", "LOOSE_EQUAL", "STRICT_EQUAL", "SUPER_STRICT_EQUAL",
     "VERY_LOOSE_EQUAL", "NOT_EQUAL"},
    {"LESS_THAN", "GREATER_THAN", "LESS_EQUAL", "GREATER_EQUAL"},
    {"PLUS", "MINUS"}, {"MULTIPLY", "DIVIDE", "MODULO"}, {"POWER"}>>

RECURSIVE BinaryLevel(_, _, _)
RECURSIVE BinaryLoop(_, _, _)
RECURSIVE parse_unary(_, _)
RECURSIVE parse_postfix(_, _)
RECURSIVE PostfixLoop(_, _)
RECURSIVE parse_primary(_, _)
RECURSIVE ParseList(_, _, _, _, _)

\* parse_expression is parse_assignment, which is parse_or
parse_expression(tokens, pos) == BinaryLevel(tokens, pos, 1)

\* the operand of a level: the next level, parse_unary after parse_power
Operand(tokens, pos, level) ==
  IF level = Len(LevelOperators) THEN parse_unary(tokens, pos)
  ELSE BinaryLevel(tokens, pos, level + 1)

\* parse_or (level 1), parse_and, parse_equality, parse_comparison,
\* parse_addition, parse_multiplication, parse_power (level 7)
BinaryLevel(tokens, pos, level) ==
  LET Left(expr) == IF expr.err # NoFault THEN expr ELSE BinaryLoop(tokens, expr, level)
  IN  Left(Operand(tokens, pos, level))

BinaryLoop(tokens, expr, level) ==
  LET operator == JoinChars(tokens[expr.pos + 1].value)
      Right(right) ==
        IF right.err # NoFault THEN right
        ELSE BinaryLoop(tokens,
                        Parsed(BinaryOperation(expr.node, operator, right.node),
                               right.pos),
                        level)
  IN
  IF match(tokens, expr.pos, LevelOperators[level])
    THEN Right(Operand(tokens, next_pos(tokens, expr.pos), level))
  ELSE expr

parse_unary(tokens, pos) ==
  LET type == tokens[pos + 1].type
      Target(target) ==
        IF target.err # NoFault THEN target
        ELSE Parsed(CASE type = "PREVIOUS" -> PreviousExpression(target.node)
                      [] type = "NEXT" -> NextExpression(target.node)
                      [] type = "CURRENT" -> CurrentExpression(target.node)
                      [] type = "AWAIT" -> AwaitExpression(target.node)
                      [] OTHER -> UnaryOperation(JoinChars(tokens[pos + 1].value),
                                                 target.node),
                    target.pos)
  IN
  IF type \in {"NOT", "MINUS", "PLUS", "PREVIOUS", "NEXT", "CURRENT", "AWAIT"}
    THEN Target(parse_unary(tokens, next_pos(tokens, pos)))
  ELSE parse_postfix(tokens, pos)

\* the loops "while not match(close): if items: consume(COMMA); items.append(
\* parse_expression())" of calls, arrays and new; node holds the items
ParseList(tokens, pos, close, message, items) ==
  LET Item(item) ==
        IF item.err # NoFault THEN item
        ELSE ParseList(tokens, item.pos, close, message, Append(items, item.node))
  IN
  IF match(tokens, pos, {close}) THEN Parsed(ArrayLiteral(items), pos)
  ELSE IF items # <<>> /\ ~match(tokens, pos, {"COMMA"})
    THEN Raised(tokens, pos, message)
  ELSE Item(parse_expression(tokens, IF items # <<>> THEN next_pos(tokens, pos) ELSE pos))

parse_postfix(tokens, pos) ==
  LET Primary(expr) == IF expr.err # NoFault THEN expr ELSE PostfixLoop(tokens, expr)
  IN  Primary(parse_primary(tokens, pos))

\* no branch of the loop takes INCREMENT or DECREMENT
PostfixLoop(tokens, expr) ==
  LET after == next_pos(tokens, expr.pos)
      Index(index) ==
        IF index.err # NoFault THEN index
        ELSE IF ~match(tokens, index.pos, {"RBRACKET"})
          THEN Raised(tokens, index.pos, "Expected ']' after array index")
        ELSE PostfixLoop(tokens,
                         Parsed(ArrayAccess(expr.node, index.node),
                                next_pos(tokens, index.pos)))
      Arguments(arguments) ==
        IF arguments.err # NoFault THEN arguments
        ELSE PostfixLoop(tokens,
                         Parsed(FunctionCall(expr.node, arguments.node.kids),
                                next_pos(tokens, arguments.pos)))
  IN
  IF match(tokens, expr.pos, {"DOT"})
    THEN IF ~match(tokens, after, {"IDENTIFIER"})
           THEN Raised(tokens, after, "Expected property name after '.'")
         ELSE PostfixLoop(tokens,
                          Parsed(MemberAccess(expr.node, JoinChars(tokens[after + 1].value)),
                                 next_pos(tokens, after)))
  ELSE IF match(tokens, expr.pos, {"LBRACKET"})
    THEN Index(parse_expression(tokens, after))
  ELSE IF match(tokens, expr.pos, {"LPAREN"})
    THEN Arguments(ParseList(tokens, after, "RPAREN",
                             "Expected ',' between arguments", <<>>))
  ELSE expr

\* the NumberLiteral of a NUMBER token: lines 584-599
NumberOf(value) ==
  LET Float(x) == IF x.err # NoFault THEN RawNumberLiteral(value)
                  ELSE NumberLiteral(FloatV(x.n, x.d))
  IN
  IF Contains(value, "/") THEN RawNumberLiteral(value)
  ELSE IF Contains(value, ".") THEN Float(float_(value))
  ELSE NumberLiteral(IntV(DigitsVal(value, 0)))

parse_primary(tokens, pos) ==
  LET token == tokens[pos + 1]
      type == token.type
      after == next_pos(tokens, pos)
      name == JoinChars(token.value)
      Elements(elements) ==
        IF elements.err # NoFault THEN elements
        ELSE Parsed(elements.node, next_pos(tokens, elements.pos))
      Grouped(expr) ==
        IF expr.err # NoFault THEN expr
        ELSE IF ~match(tokens, expr.pos, {"RPAREN"})
          THEN Raised(tokens, expr.pos, "Expected ')' after expression")
        ELSE Parsed(expr.node, next_pos(tokens, expr.pos))
      Used(initial_value) ==
        IF initial_value.err # NoFault THEN initial_value
        ELSE IF ~match(tokens, initial_value.pos, {"RPAREN"})
          THEN Raised(tokens, initial_value.pos, "Expected ')' after use argument")
        ELSE Parsed(UseExpression(initial_value.node),
                    next_pos(tokens, initial_value.pos))
      Constructed(arguments) ==
        IF arguments.err # NoFault THEN arguments
        ELSE Parsed(NewExpression(JoinChars(tokens[after + 1].value),
                                  arguments.node.kids),
                    next_pos(tokens, arguments.pos))
      Prefixed(target) ==
        IF target.err # NoFault THEN target
        ELSE Parsed(IF type = "INCREMENT" THEN IncrementExpression(target.node, TRUE)
                    ELSE DecrementExpression(target.node, TRUE),
                    target.pos)
  IN
  IF type = "NUMBER" THEN Parsed(NumberOf(token.value), after)
  ELSE IF type = "STRING" THEN Parsed(StringLiteral(name), after)
  ELSE IF type = "BOOLEAN"
    THEN Parsed(BooleanLiteral(JoinChars(Lower(token.value)) = "true"), after)
  ELSE IF type = "MAYBE" THEN Parsed(MaybeLiteral, after)
  ELSE IF type = "IDENTIFIER"
    THEN Parsed(IF name = "undefined" THEN UndefinedLiteral
                ELSE IF name = "null" THEN NullLiteral
                ELSE Identifier(name), after)
  ELSE IF type = "LBRACKET"
    THEN Elements(ParseList(tokens, after, "RBRACKET",
                            "Expected ',' between array elements", <<>>))
  ELSE IF type = "LPAREN" THEN Grouped(parse_expression(tokens, after))
  ELSE IF type = "USE"
    THEN IF ~match(tokens, after, {"LPAREN"})
           THEN Raised(tokens, after, "Expected '(' after 'use'")
         ELSE Used(parse_expression(tokens, next_pos(tokens, after)))
  ELSE IF type = "NEW"
    THEN IF ~match(tokens, after, {"IDENTIFIER"})
           THEN Raised(tokens, after, "Expected class name after 'new'")
         ELSE IF ~match(tokens, next_pos(tokens, after), {"LPAREN"})
           THEN Raised(tokens, next_pos(tokens, after), "Expected '(' after class name")
         ELSE Constructed(ParseList(tokens, next_pos(tokens, next_pos(tokens, after)),
                                    "RPAREN", "Expected ',' between arguments", <<>>))
  ELSE IF type = "PRINT" THEN Parsed(Identifier("print"), after)
  ELSE IF type \in {"INCREMENT", "DECREMENT"} THEN Prefixed(parse_primary(tokens, after))
  ELSE Raised(tokens, pos, "Unexpected token TokenType." \o type)

(***************************************************************************)
(* dreamberd_parser.py: the statements.  parse_statement yields a kind     *)
(* beside the node: "none" (the None it returns at EOF), "statement", the  *)
(* kind of body it has opened ("function", "class", "if", "when": the node *)
(* is then the statement without its body, pos the token after the '{'),   *)
(* or "error".  The keywords of a declaration, its counts of const and var *)
(* and its type annotation are parsed and not kept: no visitor reads them. *)
(***************************************************************************)
Statement(kind, node, pos) == [node |-> node, err |-> NoFault, pos |-> pos, kind |-> kind]

StatementError(err) == [node |-> NoNode, err |-> err, pos |-> 0, kind |-> "error"]

RECURSIVE SkipTypes(_, _, _)
SkipTypes(tokens, pos, token_types) ==
  IF match(tokens, pos, token_types) THEN SkipTypes(tokens, next_pos(tokens, pos), token_types)
  ELSE pos

consume_statement_terminator(tokens, pos) ==
  IF match(tokens, pos, {"EXCLAMATION", "INVERTED_EXCLAMATION"})
    THEN [priority |-> tokens[pos + 1].priority, is_debug |-> FALSE,
          pos |-> next_pos(tokens, pos)]
  ELSE IF match(tokens, pos, {"QUESTION"})
    THEN [priority |-> 0, is_debug |-> TRUE, pos |-> SkipTypes(tokens, pos, {"QUESTION"})]
  ELSE [priority |-> 0, is_debug |-> FALSE, pos |-> pos]

\* a statement that ends with consume_statement_terminator
Terminate(tokens, node, pos) ==
  Statement("statement", node, consume_statement_terminator(tokens, pos).pos)

parse_variable_declaration(tokens, pos) ==
  IF match(tokens, pos, {"CONST_CONST_CONST"})
    THEN LET p1 == next_pos(tokens, pos)
             p2 == next_pos(tokens, p1)
             Ended(value, end) ==
               Statement("statement",
                         GlobalConstantDeclaration(JoinChars(tokens[p1 + 1].value),
                                                   value.node, end.priority),
                         end.pos)
             Valued(value) ==
               IF value.err # NoFault THEN StatementError(value.err)
               ELSE Ended(value, consume_statement_terminator(tokens, value.pos))
         IN  IF ~match(tokens, p1, {"IDENTIFIER"})
               THEN StatementError(ParseError("Expected variable name", tokens[p1 + 1]))
             ELSE IF ~match(tokens, p2, {"ASSIGN"})
               THEN StatementError(ParseError("Expected '=' in const const const declaration",
                                              tokens[p2 + 1]))
             ELSE Valued(parse_expression(tokens, next_pos(tokens, p2)))
  ELSE
  LET p1 == SkipTypes(tokens, pos, {"CONST", "VAR"})
      p2 == next_pos(tokens, p1)
      has_lifetime == match(tokens, p2, {"LESS_THAN"})
      p3 == IF has_lifetime THEN p2 + 3 ELSE p2
      has_type == match(tokens, p3, {"COLON"})
      p4 == IF has_type THEN p3 + 2 ELSE p3
      has_value == match(tokens, p4, {"ASSIGN"})
      Ended(value, end) ==
        Statement("statement",
                  VariableDeclaration(JoinChars(tokens[p1 + 1].value),
                                      IF has_value THEN <<value.node>> ELSE <<>>,
                                      IF has_lifetime THEN tokens[p2 + 2].value ELSE <<>>,
                                      end.priority),
                  end.pos)
      Valued(value) ==
        IF has_value /\ value.err # NoFault THEN StatementError(value.err)
        ELSE Ended(value,
                   consume_statement_terminator(tokens,
                                                IF has_value THEN value.pos ELSE p4))
  IN
  IF ~match(tokens, p1, {"IDENTIFIER"})
    THEN StatementError(ParseError("Expected variable name", tokens[p1 + 1]))
  ELSE IF has_lifetime /\ ~match(tokens, next_pos(tokens, p2), {"IDENTIFIER"})
    THEN StatementError(ParseError("Expected lifetime", tokens[next_pos(tokens, p2) + 1]))
  ELSE IF has_lifetime /\ ~match(tokens, p2 + 2, {"GREATER_THAN"})
    THEN StatementError(ParseError("Expected '>' after lifetime", tokens[p2 + 3]))
  ELSE IF has_type /\ ~match(tokens, next_pos(tokens, p3), {"IDENTIFIER"})
    THEN StatementError(ParseError("Expected type name", tokens[next_pos(tokens, p3) + 1]))
  ELSE Valued(parse_expression(tokens, next_pos(tokens, p4)))

\* the loop over the parameters: the names, and the pos of the ')'
RECURSIVE ParseParameters(_, _, _)
ParseParameters(tokens, pos, parameters) ==
  IF match(tokens, pos, {"RPAREN"})
    THEN [err |-> NoFault, pos |-> pos, names |-> parameters]
  ELSE IF parameters # <<>> /\ ~match(tokens, pos, {"COMMA"})
    THEN [err |-> ParseError("Expected ',' between parameters", tokens[pos + 1]),
          pos |-> pos,
          names |-> <<>>]
  ELSE LET p1 == IF parameters # <<>> THEN next_pos(tokens, pos) ELSE pos
       IN  IF ~match(tokens, p1, {"IDENTIFIER"})
             THEN [err |-> ParseError("Expected parameter name", tokens[p1 + 1]),
                   pos |-> p1,
                   names |-> <<>>]
           ELSE ParseParameters(tokens, next_pos(tokens, p1),
                                Append(parameters, JoinChars(tokens[p1 + 1].value)))

FunctionKeywords == {"FUNCTION", "FUNC", "FUN", "FN", "FUNCTI", "F", "UNION"}

\* up to the '{' of a block body, or all of a declaration with an
\* expression body
parse_function_declaration(tokens, pos) ==
  LET p1 == next_pos(tokens, pos)
      p2 == next_pos(tokens, p1)
      name == JoinChars(tokens[p1 + 1].value)
      Body(parameters, body) ==
        IF body.err # NoFault THEN StatementError(body.err)
        ELSE Terminate(tokens, FunctionDeclaration(name, parameters.names, <<body.node>>, FALSE),
                       body.pos)
      Signature(parameters, p3) ==
        IF parameters.err # NoFault THEN StatementError(parameters.err)
        ELSE IF ~match(tokens, p3, {"ARROW"})
          THEN StatementError(ParseError("Expected '=>' after function signature",
                                         tokens[p3 + 1]))
        ELSE IF match(tokens, next_pos(tokens, p3), {"LBRACE"})
          THEN Statement("function",
                         FunctionDeclaration(name, parameters.names, <<>>, TRUE),
                         next_pos(tokens, next_pos(tokens, p3)))
        ELSE Body(parameters, parse_expression(tokens, next_pos(tokens, p3)))
      Parameters(parameters) == Signature(parameters, next_pos(tokens, parameters.pos))
  IN
  IF ~match(tokens, p1, {"IDENTIFIER"})
    THEN StatementError(ParseError("Expected function name", tokens[p1 + 1]))
  ELSE IF match(tokens, p2, {"LPAREN"})
    THEN Parameters(ParseParameters(tokens, next_pos(tokens, p2), <<>>))
  ELSE Signature([err |-> NoFault, pos |-> p2, names |-> <<>>], p2)

parse_class_declaration(tokens, pos) ==
  LET p1 == next_pos(tokens, pos)
      p2 == next_pos(tokens, p1)
  IN
  IF ~match(tokens, p1, {"IDENTIFIER"})
    THEN StatementError(ParseError("Expected class name", tokens[p1 + 1]))
  ELSE IF ~match(tokens, p2, {"LBRACE"})
    THEN StatementError(ParseError("Expected '{' after class name", tokens[p2 + 1]))
  ELSE Statement("class", ClassDeclaration(JoinChars(tokens[p1 + 1].value), <<>>),
                 next_pos(tokens, p2))

\* parse_if_statement and parse_when_statement up to the '{': word is 'if'
\* or 'when'
parse_conditional(tokens, pos, word) ==
  LET p1 == next_pos(tokens, pos)
      Condition(condition, p2) ==
        IF condition.err # NoFault THEN StatementError(condition.err)
        ELSE IF ~match(tokens, condition.pos, {"RPAREN"})
          THEN StatementError(ParseError("Expected ')' after " \o word \o " condition",
                                         tokens[condition.pos + 1]))
        ELSE IF ~match(tokens, p2, {"LBRACE"})
          THEN StatementError(ParseError("Expected '{' after " \o word \o " condition",
                                         tokens[p2 + 1]))
        ELSE Statement(word,
                       IF word = "if" THEN IfStatement(condition.node, <<>>)
                       ELSE WhenStatement(condition.node, <<>>),
                       next_pos(tokens, p2))
      Parenthesised(condition) == Condition(condition, next_pos(tokens, condition.pos))
  IN
  IF ~match(tokens, p1, {"LPAREN"})
    THEN StatementError(ParseError("Expected '(' after '" \o word \o "'", tokens[p1 + 1]))
  ELSE Parenthesised(parse_expression(tokens, next_pos(tokens, p1)))

parse_return_statement(tokens, pos) ==
  LET p1 == next_pos(tokens, pos)
      Valued(value) ==
        IF value.err # NoFault THEN StatementError(value.err)
        ELSE Terminate(tokens, ReturnStatement(<<value.node>>), value.pos)
  IN
  IF match(tokens, p1, {"EXCLAMATION", "QUESTION", "NEWLINE", "EOF"})
    THEN Terminate(tokens, ReturnStatement(<<>>), p1)
  ELSE Valued(parse_expression(tokens, p1))

parse_delete_statement(tokens, pos) ==
  LET Target(target) ==
        IF target.err # NoFault THEN StatementError(target.err)
        ELSE Terminate(tokens, DeleteStatement(target.node), target.pos)
  IN  Target(parse_expression(tokens, next_pos(tokens, pos)))

parse_import_statement(tokens, pos) ==
  LET p1 == next_pos(tokens, pos)
  IN  IF ~match(tokens, p1, {"IDENTIFIER"})
        THEN StatementError(ParseError("Expected import name", tokens[p1 + 1]))
      ELSE Terminate(tokens, ImportStatement(JoinChars(tokens[p1 + 1].value)),
                     next_pos(tokens, p1))

parse_export_statement(tokens, pos) ==
  LET p1 == next_pos(tokens, pos)
      p2 == next_pos(tokens, p1)
      p3 == next_pos(tokens, p2)
  IN
  IF ~match(tokens, p1, {"IDENTIFIER"})
    THEN StatementError(ParseError("Expected export name", tokens[p1 + 1]))
  ELSE IF ~match(tokens, p2, {"TO"})
    THEN StatementError(ParseError("Expected 'to' after export name", tokens[p2 + 1]))
  ELSE IF ~match(tokens, p3, {"STRING"})
    THEN StatementError(ParseError("Expected target file name", tokens[p3 + 1]))
  ELSE Terminate(tokens,
                 ExportStatement(JoinChars(tokens[p1 + 1].value),
                                 JoinChars(tokens[p3 + 1].value)),
                 next_pos(tokens, p3))

\* parse_statement from the class declarations on: what follows an 'async'
\* that no function keyword follows
StatementFromClass(tokens, pos) ==
  LET type == tokens[pos + 1].type
      Ended(expr, end) ==
        Statement("statement",
                  ExpressionStatement(expr.node, end.priority, end.is_debug), end.pos)
      Expression(expr) ==
        IF expr.err # NoFault THEN StatementError(expr.err)
        ELSE Ended(expr, consume_statement_terminator(tokens, expr.pos))
  IN
  IF type \in {"CLASS", "CLASSNAME"} THEN parse_class_declaration(tokens, pos)
  ELSE IF type = "IF" THEN parse_conditional(tokens, pos, "if")
  ELSE IF type = "WHEN" THEN parse_conditional(tokens, pos, "when")
  ELSE IF type = "RETURN" THEN parse_return_statement(tokens, pos)
  ELSE IF type = "DELETE" THEN parse_delete_statement(tokens, pos)
  ELSE IF type = "IMPORT" THEN parse_import_statement(tokens, pos)
  ELSE IF type = "EXPORT" THEN parse_export_statement(tokens, pos)
  ELSE IF type = "REVERSE" THEN Terminate(tokens, ReverseStatement, next_pos(tokens, pos))
  ELSE IF type = "STRING"
    THEN Terminate(tokens, NoopStatement(JoinChars(tokens[pos + 1].value)),
                   next_pos(tokens, pos))
  ELSE Expression(parse_expression(tokens, pos))

parse_statement(tokens, pos0) ==
  LET pos == skip_newlines(tokens, pos0)
      type == tokens[pos + 1].type
      after == next_pos(tokens, pos)
  IN
  IF type = "EOF" THEN Statement("none", NoNode, pos)
  ELSE IF type \in {"CONST", "VAR", "CONST_CONST_CONST"}
    THEN parse_variable_declaration(tokens, pos)
  ELSE IF type \in FunctionKeywords THEN parse_function_declaration(tokens, pos)
  ELSE IF type = "ASYNC"
    THEN IF match(tokens, after, FunctionKeywords)
           THEN parse_function_declaration(tokens, after)
         ELSE StatementFromClass(tokens, after)
  ELSE StatementFromClass(tokens, pos)

(***************************************************************************)
(* The state of a run of interpret(source).  source, lexer_pos, line,      *)
(* column and tokens are the fields of the DreamBerdLexer; tokens,         *)
(* parser_pos those of the DreamBerdParser, parse_stack the bodies its     *)
(* parse methods have open (the statements of the program first, each with *)
(* the statements collected so far), program the statements parse          *)
(* returned.  The next ten variables are the fields of the                 *)
(* DreamBerdInterpreter (heap holds the wrapper objects its scopes refer   *)
(* to, now is the wall clock its wrappers expire by); fault is the text of *)
(* the exception that ended the run, which interpret re-raises after       *)
(* "Interpretation error: " ("" while none has), stmt the statement        *)
(* visit_Program visited last, result the value that visit returned,       *)
(* steps the number of statements visited.  phase is where interpret is:   *)
(* "lex", "parse", "run" or "done".                                        *)
(***************************************************************************)
VARIABLES source, lexer_pos, line, column, tokens, parser_pos, parse_stack,
          program, phase,
          scope_stack, heap, functions, classes, class_instances,
          deleted_values, reversed, output, immutable_globals, now,
          fault, stmt, result, steps

lexer_vars == <<source, lexer_pos, line, column, tokens>>

parser_vars == <<parser_pos, parse_stack, program>>

interpreter_vars ==
  <<scope_stack, heap, functions, classes, class_instances, deleted_values,
    reversed, output, immutable_globals, now>>

visit_vars == <<stmt, result, steps>>

vars == <<lexer_vars, parser_vars, phase, interpreter_vars, fault, visit_vars>>

\* the interpreter, as the record the visitors take
Self ==
  [deleted_values |-> deleted_values,
   now |-> now,
   scope_stack |-> scope_stack,
   heap |-> heap,
   functions |-> functions,
   classes |-> classes,
   class_instances |-> class_instances,
   reversed |-> reversed,
   output |-> output,
   immutable_globals |-> immutable_globals]

\* the interpreter becomes the record st
Becomes(st) ==
  /\ scope_stack' = st.scope_stack
  /\ heap' = st.heap
  /\ functions' = st.functions
  /\ classes' = st.classes
  /\ class_instances' = st.class_instances
  /\ deleted_values' = st.deleted_values
  /\ reversed' = st.reversed
  /\ output' = st.output
  /\ immutable_globals' = st.immutable_globals
  /\ now' = st.now

\* a body the parser has open: kind is "program", "file", "function",
\* "class", "if", "else" or "when", head the statement without its body
Frame(kind, head, body) == [body |-> body, kind |-> kind, head |-> head]

\* DreamBerdInterpreter.__init__, DreamBerdLexer.__init__ and
\* DreamBerdParser.__init__ for the source text
InitAs(text, st) ==
  /\ source = text
  /\ lexer_pos = 0
  /\ line = 1
  /\ column = 1
  /\ tokens = <<>>
  /\ parser_pos = 0
  /\ parse_stack = <<Frame("program", NoNode, <<>>)>>
  /\ program = <<>>
  /\ scope_stack = st.scope_stack
  /\ heap = st.heap
  /\ functions = st.functions
  /\ classes = st.classes
  /\ class_instances = st.class_instances
  /\ deleted_values = st.deleted_values
  /\ reversed = st.reversed
  /\ output = st.output
  /\ immutable_globals = st.immutable_globals
  /\ now = st.now
  /\ fault = NoFault
  /\ stmt = NoNode
  /\ result = NoneV
  /\ steps = 0

\* the state after construction, before the source text is read
InitOf(text) == InitAs(text, InitInterpreter)

\* an exception leaves interpret: the run is over
Raises(err) ==
  /\ fault' = err
  /\ phase' = "done"

\* one turn of the loop of visit_Program: the statement is visited; an
\* exception it raises ends the run (interpret re-raises it, wrapped)
Visit(node) ==
  /\ phase = "run"
  /\ LET Visited(r) ==
           /\ Becomes(r.st)
           /\ fault' = r.err
           /\ result' = r.v
           /\ phase' = IF r.err # NoFault THEN "done" ELSE "run"
     IN  Visited(visit(node, Self))
  /\ stmt' = node
  /\ steps' = steps + 1
  /\ UNCHANGED <<lexer_vars, parser_vars>>

(***************************************************************************)
(* Spec: the loop of visit_Program over the statements of a program that   *)
(* is chosen statement by statement.                                       *)
(***************************************************************************)
Init ==
  /\ InitOf(<<>>)
  /\ phase = "run"

Step(node) ==
  /\ steps < MaxSteps
  /\ Visit(node)

(***************************************************************************)
(* The statements the runs are made of: what the parser builds for the     *)
(* source text beside each.                                                *)
(***************************************************************************)
Num(i) == NumberLiteral(IntV(i))
\* -i is parsed as the unary minus of i
Neg(i) == UnaryOperation("-", Num(i))
\* an integer as the parser builds it
IntExpr(i) == IF i < 0 THEN Neg(-i) ELSE Num(i)
Call(name, arguments) == FunctionCall(Identifier(name), arguments)
PrintCall(e) == Call("print", <<e>>)

\* the priority of a terminator: k for a run of k '!', -1 for an inverted
\* exclamation mark, 0 when '?' or nothing ends the statement
Priorities == {-1, 0, 1, 3}

\* const x = 1!  const x = 2!!!  const x = 3?  const x = ++y!  var y = 5!  ...
VariableDeclarations ==
  {VariableDeclaration("x", <<Num(v)>>, <<>>, p) : v \in {1, 2, 3}, p \in Priorities}
    \cup {VariableDeclaration("x", <<IncrementExpression(Identifier("y"), TRUE)>>,
                              <<>>, p) : p \in {1, 3}}
    \cup {VariableDeclaration("y", <<Num(5)>>, <<>>, 1),
          VariableDeclaration("y", <<>>, <<>>, 1)}

\* const const const c = 42!
GlobalConstantDeclarations == {GlobalConstantDeclaration("c", Num(42), 1)}

\* the expression statement e! or, when is_debug, e?
Terminated(e, is_debug) == ExpressionStatement(e, IF is_debug THEN 0 ELSE 1, is_debug)

\* ++x!  --x?  x?  print(x)!  ++c!  c = 0!  print(1) = z!  z!  ++1!  g()!  ...
ExpressionStatements ==
  {Terminated(e, d) :
     e \in {IncrementExpression(Identifier("x"), TRUE),
            DecrementExpression(Identifier("x"), TRUE),
            Identifier("x"),
            PrintCall(Identifier("x"))},
     d \in BOOLEAN}
    \cup {Terminated(e, FALSE) :
            e \in {IncrementExpression(Identifier("c"), TRUE),
                   BinaryOperation(Identifier("c"), "=", Num(0)),
                   BinaryOperation(Identifier("x"), "=", Num(0)),
                   PrintCall(Identifier("c")),
                   PrintCall(Num(1)),
                   BinaryOperation(PrintCall(Num(1)), "=", Identifier("z")),
                   Identifier("z"),
                   IncrementExpression(Num(1), TRUE),
                   Call("g", <<>>)}}

\* [3, 2, 5][-1]?  [3, 2][0]?  ...: every array of up to MaxLen elements
\* read at every index from -2 to MaxLen
ArrayElements == <<3, 2, 5, 7, 11, 13>>
ArrayOf(n) == ArrayLiteral([i \in 1..n |-> Num(ArrayElements[i])])
ArrayRead(n, i) == Terminated(ArrayAccess(ArrayOf(n), IntExpr(i)), TRUE)
ArrayReads == {ArrayRead(n, i) : n \in 0..MaxLen, i \in -2..MaxLen}

\* delete x!  delete 1!
DeleteStatements == {DeleteStatement(Identifier("x")), DeleteStatement(Num(1))}

\* fn g() => { print("in")!  z!  print("out")! }
FunctionDeclarations ==
  {FunctionDeclaration("g", <<>>,
     <<Terminated(PrintCall(StringLiteral("in")), FALSE),
       Terminated(Identifier("z"), FALSE),
       Terminated(PrintCall(StringLiteral("out")), FALSE)>>, TRUE)}

\* ===== main  print("in")!  ++x!  print("out")!
FileBlocks ==
  {FileBlock("main",
     <<Terminated(PrintCall(StringLiteral("in")), FALSE),
       Terminated(IncrementExpression(Identifier("x"), TRUE), FALSE),
       Terminated(PrintCall(StringLiteral("out")), FALSE)>>)}

\* if (true) { }: parsed, and no visitor takes it
Unvisitable == {IfStatement(BooleanLiteral(TRUE), <<>>)}

StepVariableDeclaration == \E node \in VariableDeclarations : Step(node)
StepGlobalConstantDeclaration == \E node \in GlobalConstantDeclarations : Step(node)
StepExpressionStatement == \E node \in ExpressionStatements : Step(node)
StepArrayRead == \E node \in ArrayReads : Step(node)
StepDeleteStatement == \E node \in DeleteStatements : Step(node)
StepFunctionDeclaration == \E node \in FunctionDeclarations : Step(node)
StepFileBlock == \E node \in FileBlocks : Step(node)
StepUnvisitable == \E node \in Unvisitable : Step(node)

Next ==
  \/ StepVariableDeclaration
  \/ StepGlobalConstantDeclaration
  \/ StepExpressionStatement
  \/ StepDeleteStatement
  \/ StepFunctionDeclaration
  \/ StepFileBlock
  \/ StepUnvisitable

Spec == Init /\ [][Next]_vars

\* SpecArray: the same loop over the programs that are reads of array
\* literals
NextArray == StepArrayRead

SpecArray == Init /\ [][NextArray]_vars

(***************************************************************************)
(* Classes and their instances: class declarations, new C() for declared   *)
(* and undeclared classes, alone and as the value of a declaration.        *)
(***************************************************************************)
ClassNames == {"C", "D", "E"}

\* class C { var y = 1! }  class C { var y = 2! }  class D { z! }
\* class E { print(1)! }
ClassDeclarations ==
  {ClassDeclaration("C", <<VariableDeclaration("y", <<Num(v)>>, <<>>, 1)>>) :
     v \in {1, 2}}
    \cup {ClassDeclaration("D", <<Terminated(Identifier("z"), FALSE)>>),
          ClassDeclaration("E", <<Terminated(PrintCall(Num(1)), FALSE)>>)}

\* new C()!
NewStatement(class_name) == Terminated(NewExpression(class_name, <<>>), FALSE)

\* new C()!  new D()!  new E()!  var x = new C()!  print(x)!
NewStatements ==
  {NewStatement(class_name) : class_name \in ClassNames}
    \cup {VariableDeclaration("x", <<NewExpression("C", <<>>)>>, <<>>, 1),
          Terminated(PrintCall(Identifier("x")), FALSE)}

StepClassDeclaration == \E node \in ClassDeclarations : Step(node)
StepNew == \E node \in NewStatements : Step(node)

NextClass == StepClassDeclaration \/ StepNew

SpecClass == Init /\ [][NextClass]_vars

(***************************************************************************)
(* Deleted numbers: delete n! for number literals, and arithmetic on       *)
(* number literals and on a variable.                                      *)
(***************************************************************************)
ArithmeticOperators == {"+", "-", "*", "/", "^", "%"}

\* delete 1!  delete 2.0!
DeletedNumbers == {Num(1), NumberLiteral(FloatV(2, 1))}

\* 1, 3, 1.0 and the variable x
ArithmeticOperands ==
  {Num(1), Num(3), NumberLiteral(FloatV(1, 1)), Identifier("x")}

ArithmeticStatement(left, operator, right) ==
  Terminated(BinaryOperation(left, operator, right), FALSE)

ArithmeticStatements ==
  {ArithmeticStatement(left, operator, right) :
     left \in ArithmeticOperands, right \in ArithmeticOperands,
     operator \in ArithmeticOperators}

StepDeleteNumber == \E n \in DeletedNumbers : Step(DeleteStatement(n))

\* var x = 2!
StepDeclareOperand == Step(VariableDeclaration("x", <<Num(2)>>, <<>>, 1))

StepArithmetic == \E node \in ArithmeticStatements : Step(node)

NextPoison == StepDeleteNumber \/ StepDeclareOperand \/ StepArithmetic

SpecPoison == Init /\ [][NextPoison]_vars

(***************************************************************************)
(* Bodies that run in a scope of their own: function calls, file blocks    *)
(* and class instantiations, ending normally, by a return or by a fault.   *)
(***************************************************************************)
\* fn g(a, b) => { print(a)!  var y = b!  return y!  print("after")! }
\* fn h() => { ++x!  z! }
\* fn k() => x
ScopeFunctions ==
  {FunctionDeclaration("g", <<"a", "b">>,
     <<Terminated(PrintCall(Identifier("a")), FALSE),
       VariableDeclaration("y", <<Identifier("b")>>, <<>>, 1),
       ReturnStatement(<<Identifier("y")>>),
       Terminated(PrintCall(StringLiteral("after")), FALSE)>>, TRUE),
   FunctionDeclaration("h", <<>>,
     <<Terminated(IncrementExpression(Identifier("x"), TRUE), FALSE),
       Terminated(Identifier("z"), FALSE)>>, TRUE),
   FunctionDeclaration("k", <<>>, <<Identifier("x")>>, FALSE)}

\* g(1, 2)?  h()?  k()?
ScopeCalls ==
  {Terminated(Call("g", <<Num(1), Num(2)>>), TRUE),
   Terminated(Call("h", <<>>), TRUE),
   Terminated(Call("k", <<>>), TRUE)}

\* ===== main  var y = 2!  g(y, 1)?
\* ===== main  var y = 2!  h()!
\* ===== main  const const const c = 42!
ScopeFileBlocks ==
  {FileBlock("main",
     <<VariableDeclaration("y", <<Num(2)>>, <<>>, 1),
       Terminated(Call("g", <<Identifier("y"), Num(1)>>), TRUE)>>),
   FileBlock("main",
     <<VariableDeclaration("y", <<Num(2)>>, <<>>, 1),
       Terminated(Call("h", <<>>), FALSE)>>),
   FileBlock("main", <<GlobalConstantDeclaration("c", Num(42), 1)>>)}

\* class C { var y = 1!  k()! }  class D { var y = 1! }
ScopeClasses ==
  {ClassDeclaration("C",
     <<VariableDeclaration("y", <<Num(1)>>, <<>>, 1),
       Terminated(Call("k", <<>>), FALSE)>>),
   ClassDeclaration("D", <<VariableDeclaration("y", <<Num(1)>>, <<>>, 1)>>)}

\* the statements that run a body
Bodied ==
  ScopeCalls \cup ScopeFileBlocks \cup {NewStatement("C"), NewStatement("D")}

\* var x = 1!  and the declarations
StepScopeDeclaration ==
  \E node \in ScopeFunctions \cup ScopeClasses
                \cup {VariableDeclaration("x", <<Num(1)>>, <<>>, 1)} :
    Step(node)

StepBodied == \E node \in Bodied : Step(node)

NextScope == StepScopeDeclaration \/ StepBodied

SpecScope == Init /\ [][NextScope]_vars

(***************************************************************************)
(* Lookups of x from inside nested bodies while the wall clock runs: every *)
(* scope of the stack holds no binding of x, a binding without expiry or   *)
(* one that expires after the first second, deleted or not.                *)
(***************************************************************************)
BindingKinds == {"absent", "kept", "kept_deleted", "expiring", "expiring_deleted"}

\* the wrapper of x in scope i: its value is i
BindingOf(kind, i) ==
  [DreamBerdValue(IntV(i), kind \in {"expiring", "expiring_deleted"}, 1)
     EXCEPT !.deleted = kind \in {"kept_deleted", "expiring_deleted"}]

\* the interpreter inside MaxDepth - 1 nested bodies, x bound as kinds says
Nested(kinds) ==
  LET base == InitInterpreter
      ref(i) == Len(base.heap) + i
      scope(i) ==
        LET outer == IF i = 1 THEN base.scope_stack[1] ELSE <<>>
        IN  IF kinds[i] = "absent" THEN outer ELSE PutKey(outer, "x", ref(i))
  IN  [base EXCEPT
         !.heap = @ \o [i \in 1..MaxDepth |-> BindingOf(kinds[i], i)],
         !.scope_stack = [i \in 1..MaxDepth |-> scope(i)]]

InitLookup ==
  /\ \E kinds \in [1..MaxDepth -> BindingKinds] : InitAs(<<>>, Nested(kinds))
  /\ phase = "run"

\* x!
Lookup == Step(Terminated(Identifier("x"), FALSE))

\* a second passes
Tick ==
  /\ phase = "run"
  /\ now < MaxNow
  /\ now' = now + 1
  /\ UNCHANGED <<lexer_vars, parser_vars, phase, scope_stack, heap, functions,
                 classes, class_instances, deleted_values, reversed, output,
                 immutable_globals, fault, visit_vars>>

NextLookup == Lookup \/ Tick

SpecLookup == InitLookup /\ [][NextLookup]_vars

(***************************************************************************)
(* The equality operators over literal operands: each statement is         *)
(* left op right! with both operands number or string literals.           *)
(***************************************************************************)
\* 3, 4, 3.0, 3.14, 1000, "3", "3.14", "ab"
EqualityOperands ==
  {Num(3), Num(4), Num(1000),
   NumberLiteral(FloatV(3, 1)), NumberLiteral(FloatV(314, 100)),
   StringLiteral("3"), StringLiteral("3.14"), StringLiteral("ab")}

EqualityOperators == {"=", "==", "===", "===="}

EqualityStatement(left, operator, right) ==
  Terminated(BinaryOperation(left, operator, right), FALSE)

StepEquality ==
  \E left \in EqualityOperands, right \in EqualityOperands,
     operator \in EqualityOperators :
    Step(EqualityStatement(left, operator, right))

NextEquality == StepEquality

SpecEquality == Init /\ [][NextEquality]_vars

(***************************************************************************)
(* SpecRun: interpret(source), from the first character of the source to   *)
(* the return of visit_Program or the exception.                           *)
(***************************************************************************)
\* one turn of the loop of tokenize; when only blanks are left, the break
\* out of it, the EOF token and the return
Tokenize ==
  /\ phase = "lex"
  /\ lexer_pos < Len(source)
  /\ LET c == skip_whitespace(source, Cursor(lexer_pos, line, column))
         r == tokenize_char(source, c)
         end == current_char(source, c.pos) = ""
         cur == IF end THEN c ELSE r.cur
     IN  /\ tokens' = IF end THEN Append(tokens, Token("EOF", <<>>, c.line, c.column, 0))
                      ELSE tokens \o r.tok
         /\ lexer_pos' = cur.pos
         /\ line' = cur.line
         /\ column' = cur.column
         /\ phase' = IF end THEN "parse" ELSE "lex"
  /\ UNCHANGED <<source, parser_vars, interpreter_vars, fault, visit_vars>>

\* the loop of tokenize ends at the end of the source: the EOF token
TokenizeEnd ==
  /\ phase = "lex"
  /\ lexer_pos >= Len(source)
  /\ tokens' = Append(tokens, Token("EOF", <<>>, line, column, 0))
  /\ phase' = "parse"
  /\ UNCHANGED <<source, lexer_pos, line, column, parser_vars, interpreter_vars,
                 fault, visit_vars>>

\* the body whose loop is running
Top == parse_stack[Len(parse_stack)]

BodyKinds == {"function", "class", "if", "else", "when"}

\* the parser's pos after the skip_newlines that starts a turn of a loop
Skipped == skip_newlines(tokens, parser_pos)

\* the loop of the open body goes on to parse_statement
AtStatement ==
  CASE Top.kind = "program" -> ~match(tokens, Skipped, {"EOF", "FILE_SEPARATOR"})
    [] Top.kind = "file" -> ~match(tokens, parser_pos, {"EOF", "FILE_SEPARATOR"})
    [] OTHER -> ~match(tokens, Skipped, {"RBRACE"})

\* the stack with the statement added to the body on top
Collected(stack, node) ==
  [stack EXCEPT ![Len(stack)].body = Append(@, node)]

\* what the turn of the open loop gets from parse_statement; a file body
\* whose end follows the newlines does not call it
Turn ==
  IF Top.kind = "file" /\ match(tokens, Skipped, {"EOF", "FILE_SEPARATOR"})
    THEN Statement("none", NoNode, Skipped)
  ELSE parse_statement(tokens, Skipped)

\* one turn of a loop "stmt = self.parse_statement(); if stmt:
\* body.append(stmt)": of parse for the program and for a file block, of
\* parse_function_declaration, parse_class_declaration, parse_if_statement
\* and parse_when_statement for a body in braces
ParseStatement ==
  /\ phase = "parse"
  /\ AtStatement
  /\ LET Taken(r) ==
           IF r.kind = "error"
             THEN /\ Raises(r.err)
                  /\ UNCHANGED parser_vars
           ELSE /\ parser_pos' = r.pos
                /\ parse_stack' =
                     IF r.kind = "none" THEN parse_stack
                     ELSE IF r.kind = "statement" THEN Collected(parse_stack, r.node)
                     ELSE Append(parse_stack, Frame(r.kind, r.node, <<>>))
                /\ UNCHANGED <<program, phase, fault>>
     IN  Taken(Turn)
  /\ UNCHANGED <<lexer_vars, interpreter_vars, visit_vars>>

\* the statement of a body that its '}' closes
Closed(frame) ==
  IF frame.kind \in {"if", "when"}
    THEN [frame.head EXCEPT !.kids = @ \o frame.body]
  ELSE IF frame.kind = "else" THEN frame.head
  ELSE [frame.head EXCEPT !.kids = frame.body]

\* the loop of a body in braces ends at its '}': the rest of the parse
\* method, and the statement is added to the body around it.  After the
\* body of an if, an 'else' opens the else body
CloseBody ==
  /\ phase = "parse"
  /\ Top.kind \in BodyKinds
  /\ match(tokens, Skipped, {"RBRACE"})
  /\ LET after == next_pos(tokens, Skipped)
         node == Closed(Top)
         rest == SubSeq(parse_stack, 1, Len(parse_stack) - 1)
     IN  IF Top.kind = "if" /\ match(tokens, after, {"ELSE"})
           THEN IF match(tokens, next_pos(tokens, after), {"LBRACE"})
                  THEN /\ parser_pos' = next_pos(tokens, next_pos(tokens, after))
                       /\ parse_stack' = Append(rest, Frame("else", node, <<>>))
                       /\ UNCHANGED <<program, phase, fault>>
                ELSE /\ Raises(ParseError("Expected '{' after 'else'",
                                          tokens[next_pos(tokens, after) + 1]))
                     /\ UNCHANGED parser_vars
         ELSE /\ parser_pos' = IF Top.kind = "function"
                                 THEN consume_statement_terminator(tokens, after).pos
                               ELSE after
              /\ parse_stack' = Collected(rest, node)
              /\ UNCHANGED <<program, phase, fault>>
  /\ UNCHANGED <<lexer_vars, interpreter_vars, visit_vars>>

\* parse at a file separator: the optional name, and the file body opens
OpenFileBlock ==
  /\ phase = "parse"
  /\ Top.kind = "program"
  /\ match(tokens, Skipped, {"FILE_SEPARATOR"})
  /\ LET after == next_pos(tokens, Skipped)
         named == match(tokens, after, {"IDENTIFIER"})
     IN  /\ parser_pos' = IF named THEN next_pos(tokens, after) ELSE after
         /\ parse_stack' =
              Append(parse_stack,
                     Frame("file",
                           FileBlock(IF named THEN JoinChars(tokens[after + 1].value)
                                     ELSE "", <<>>),
                           <<>>))
  /\ UNCHANGED <<lexer_vars, program, phase, interpreter_vars, fault, visit_vars>>

\* the loop of a file body ends at the next separator or at EOF
CloseFileBlock ==
  /\ phase = "parse"
  /\ Top.kind = "file"
  /\ match(tokens, parser_pos, {"EOF", "FILE_SEPARATOR"})
  /\ parse_stack' = Collected(SubSeq(parse_stack, 1, Len(parse_stack) - 1),
                              [Top.head EXCEPT !.kids = Top.body])
  /\ UNCHANGED <<lexer_vars, parser_pos, program, phase, interpreter_vars, fault,
                 visit_vars>>

\* the loop of parse ends at EOF: parse returns the Program
ParseEnd ==
  /\ phase = "parse"
  /\ Top.kind = "program"
  /\ match(tokens, Skipped, {"EOF"})
  /\ parser_pos' = Skipped
  /\ program' = Top.body
  /\ phase' = "run"
  /\ UNCHANGED <<lexer_vars, parse_stack, interpreter_vars, fault, visit_vars>>

\* the statements in the order visit_Program takes them: it reads the flag
\* once, before its loop, and nothing has changed the flag of the new
\* interpreter by then
Statements ==
  IF InitInterpreter.reversed
    THEN [i \in 1..Len(program) |-> program[Len(program) + 1 - i]]
  ELSE program

\* visit_Program visits the next statement of the program
VisitStatement ==
  /\ steps < Len(program)
  /\ Visit(Statements[steps + 1])

\* visit_Program has visited every statement: interpret returns
Return ==
  /\ phase = "run"
  /\ steps = Len(program)
  /\ phase' = "done"
  /\ UNCHANGED <<lexer_vars, parser_vars, interpreter_vars, fault, visit_vars>>

(***************************************************************************)
(* The lexer alone, on sources that hold one run of '=' characters.        *)
(***************************************************************************)
\* the run of n '=' characters
Run(n) == [i \in 1..n |-> "="]

\* what stands before the run: nothing, 'a ', 'a', '<', '>', '!'
RunPrefixes == {<<>>, <<"a", " ">>, <<"a">>, <<"<">>, <<">">>, <<"!">>}

\* what stands after the run: nothing, ' b', 'b', '>'
RunSuffixes == {<<>>, <<" ", "b">>, <<"b">>, <<">">>}

RunSource(before, n, after) == before \o Run(n) \o after

RunSources ==
  {RunSource(before, n, after) :
     before \in RunPrefixes, n \in 1..MaxRun, after \in RunSuffixes}

InitLex ==
  /\ \E text \in RunSources : InitOf(text)
  /\ phase = "lex"

NextLex == Tokenize \/ TokenizeEnd

SpecLex == InitLex /\ [][NextLex]_vars

(***************************************************************************)
(* The source texts of SpecRun, as sequences of characters.                *)
(***************************************************************************)
\* the text 'var x = 5! '
var_x_5 ==
  <<"v", "a", "r", " ", "x", " ", "=", " ", "5", "!", " ">>

\* the text 'print('
print_of ==
  <<"p", "r", "i", "n", "t", "(">>

\* the text '0)!'
by_zero ==
  <<"0", ")", "!">>

\* the text 'var x = 5! ++x! x++'
increments ==
  <<"v", "a", "r", " ", "x", " ", "=", " ", "5", "!", " ", "+", "+", "x",
    "!", " ", "x", "+", "+">>

\* the numeric left operands of the divisions
Operands ==
  {
    <<"1">>,
    <<"0">>,
    <<"1", "2">>,
    <<"2", ".", "5">>
  }

\* nothing or a blank
Blanks ==
  {
    <<>>,
    <<" ">>
  }

\* what follows the postfix increment
IncrementTails ==
  {
    <<>>,
    <<"!">>,
    <<"?">>,
    <<"!", "!">>,
    <<" ", "p", "r", "i", "n", "t", "(", "x", ")", "!">>,
    <<"\n", "p", "r", "i", "n", "t", "(", "x", ")", "!">>,
    <<"!", " ", "p", "r", "i", "n", "t", "(", "x", ")", "!">>
  }

\* a statement up to the '{' of its last body
BodyHeaders ==
  {
    <<"f", "n", " ", "g", "(", ")", " ", "=", ">", " ", "{">>,
    <<"a", "s", "y", "n", "c", " ", "f", "u", "n", "c", "t", "i", "o", "n",
      " ", "g", "(", "a", ",", " ", "b", ")", " ", "=", ">", " ", "{">>,
    <<"i", "f", " ", "(", "t", "r", "u", "e", ")", " ", "{">>,
    <<"c", "l", "a", "s", "s", " ", "C", " ", "{">>,
    <<"w", "h", "e", "n", " ", "(", "x", ")", " ", "{">>,
    <<"i", "f", " ", "(", "t", "r", "u", "e", ")", " ", "{", " ", "}", " ",
      "e", "l", "s", "e", " ", "{">>,
    <<"i", "f", " ", "(", "x", ")", " ", "{", " ", "p", "r", "i", "n", "t",
      "(", "1", ")", "!", " ", "}", " ", "e", "l", "s", "e", " ", "{">>,
    <<"f", "n", " ", "g", "(", ")", " ", "=", ">", " ", "{", " ", "i", "f",
      " ", "(", "t", "r", "u", "e", ")", " ", "{">>
  }

\* the statements of the body
BodyStatements ==
  {
    <<>>,
    <<" ", "p", "r", "i", "n", "t", "(", "1", ")", "!">>,
    <<"\n">>,
    <<" ", "v", "a", "r", " ", "y", " ", "=", " ", "2", "!", "\n">>
  }

\* the rest of the source
BodyClosers ==
  {
    <<>>,
    <<" ", "}">>,
    <<" ", "}", "!", "\n", "p", "r", "i", "n", "t", "(", "2", ")", "!">>,
    <<" ", "}", " ", "p", "r", "i", "n", "t", "(", "2", ")", "!">>
  }

\* whole programs
Programs ==
  {
    <<>>,
    <<"p", "r", "i", "n", "t", "(", "1", ")", "!", " ">>,
    <<"c", "o", "n", "s", "t", " ", "x", " ", "=", " ", "1", "!", " ", "c",
      "o", "n", "s", "t", " ", "x", " ", "=", " ", "2", "!", "!", "!", " ",
      "c", "o", "n", "s", "t", " ", "x", " ", "=", " ", "3", "!", " ", "p",
      "r", "i", "n", "t", "(", "x", ")", "!">>,
    <<"c", "o", "n", "s", "t", " ", "x", " ", "=", " ", "1", "!", " ", "c",
      "o", "n", "s", "t", " ", "x", " ", "=", " ", "2", "!", " ", "p", "r",
      "i", "n", "t", "(", "x", ")", "!">>,
    <<"c", "o", "n", "s", "t", " ", "c", "o", "n", "s", "t", " ", "c", "o",
      "n", "s", "t", " ", "x", " ", "=", " ", "4", "2", "!", " ", "x", " ",
      "=", " ", "0", "!", " ", "p", "r", "i", "n", "t", "(", "x", ")", "!">>,
    <<"c", "o", "n", "s", "t", " ", "c", "o", "n", "s", "t", " ", "s", "c",
      "o", "r", "e", "s", " ", "=", " ", "[", "3", ",", " ", "2", ",", " ",
      "5", "]", "!", " ", "p", "r", "i", "n", "t", "(", "s", "c", "o", "r",
      "e", "s", "[", "-", "1", "]", ")", "!", " ", "p", "r", "i", "n", "t",
      "(", "s", "c", "o", "r", "e", "s", "[", "0", "]", ")", "!">>,
    <<"c", "o", "n", "s", "t", " ", "c", "o", "n", "s", "t", " ", "s", "c",
      "o", "r", "e", "s", " ", "=", " ", "[", "3", ",", " ", "2", ",", " ",
      "5", "]", "!", " ", "p", "r", "i", "n", "t", "(", "s", "c", "o", "r",
      "e", "s", "[", "2", "]", ")", "!">>,
    <<"p", "r", "i", "n", "t", "(", "1", ")", "!", "\n", "=", "=", "=", "=",
      "=", " ", "m", "a", "i", "n", "\n", "p", "r", "i", "n", "t", "(", "2",
      ")", "!", "\n", "=", "=", "=", "=", "=", "\n", "p", "r", "i", "n", "t",
      "(", "3", ")", "!">>,
    <<"=", "=", "=", "=", "=", " ", "m", "a", "i", "n", "\n", "v", "a", "r",
      " ", "x", " ", "=", " ", "1", "!", "\n", "\n">>,
    <<"\"", "n", "o", "o", "p", "\"", "!", " ", "p", "r", "i", "n", "t", "(",
      "\"", "a", " ", "b", "\"", ")", "!">>,
    <<"/", "/", " ", "c", "o", "m", "m", "e", "n", "t", "\n", "p", "r", "i",
      "n", "t", "(", "1", ")", "?", " ", "x", "?">>,
    <<"f", "n", " ", "g", "(", ")", " ", "=", ">", " ", "1", "!", " ", "d",
      "e", "l", "e", "t", "e", " ", "x", "!", " ", "p", "r", "i", "n", "t",
      "(", "z", ")", "!">>,
    <<"v", "a", "r", " ", "x", " ", "=", " ", "5", "!", " ", "p", "r", "i",
      "n", "t", "(", "+", "+", "x", ")", "!", " ", "p", "r", "i", "n", "t",
      "(", "-", "-", "x", ")", "!", " ", "x", "?">>,
    <<"p", "r", "i", "n", "t", "(", "1", " ", "/", " ", "0", ")", "!", " ",
      "p", "r", "i", "n", "t", "(", "7", " ", "/", " ", "2", ")", "!", " ",
      "p", "r", "i", "n", "t", "(", "6", "/", "3", ")", "!">>,
    <<"i", "f", " ", "(", "t", "r", "u", "e", ")", " ", "{", " ", "}", " ",
      "e", "l", "s", "e", " ", "p", "r", "i", "n", "t", "(", "1", ")", "!">>,
    <<"p", "r", "i", "n", "t", "(", "1">>
  }

\* print(a/0)! for a number literal a and for a variable holding a number,
\* with and without blanks around the slash
DivisionSources ==
  {print_of \o a \o s1 \o <<"/">> \o s2 \o by_zero :
     a \in Operands, s1 \in Blanks, s2 \in Blanks}
  \cup {var_x_5 \o print_of \o <<"x">> \o s1 \o <<"/">> \o s2 \o by_zero :
          s1 \in Blanks, s2 \in Blanks}

\* var x = 5! ++x! and a postfix increment of x
IncrementSources == {increments \o tail : tail \in IncrementTails}

\* statements with a body in braces, closed and left open
BodySources ==
  {header \o body \o closer :
     header \in BodyHeaders, body \in BodyStatements, closer \in BodyClosers}

\* reverse! before two prints, before three prints, and before a print and
\* a file block of two prints
ReverseSources ==
  <<
    <<"r", "e", "v", "e", "r", "s", "e", "!", "\n", "p", "r", "i", "n", "t",
      "(", "1", ")", "!", "\n", "p", "r", "i", "n", "t", "(", "2", ")", "!">>,
    <<"r", "e", "v", "e", "r", "s", "e", "!", "\n", "p", "r", "i", "n", "t",
      "(", "1", ")", "!", "\n", "p", "r", "i", "n", "t", "(", "2", ")", "!",
      "\n", "p", "r", "i", "n", "t", "(", "3", ")", "!">>,
    <<"r", "e", "v", "e", "r", "s", "e", "!", "\n", "p", "r", "i", "n", "t",
      "(", "1", ")", "!", "\n", "=", "=", "=", "=", "=", " ", "m", "a", "i",
      "n", "\n", "p", "r", "i", "n", "t", "(", "2", ")", "!", "\n", "p", "r",
      "i", "n", "t", "(", "3", ")", "!">>
  >>

\* an if with an else, a when, an import, an export, next x and await 5
UnvisitedSources ==
  {
    <<"i", "f", " ", "(", "t", "r", "u", "e", ")", " ", "{", " ", "p", "r",
      "i", "n", "t", "(", "1", ")", "!", " ", "}", " ", "e", "l", "s", "e",
      " ", "{", " ", "p", "r", "i", "n", "t", "(", "2", ")", "!", " ", "}">>,
    <<"w", "h", "e", "n", " ", "(", "t", "r", "u", "e", ")", " ", "{", " ",
      "p", "r", "i", "n", "t", "(", "1", ")", "!", " ", "}">>,
    <<"i", "m", "p", "o", "r", "t", " ", "n", "!">>,
    <<"e", "x", "p", "o", "r", "t", " ", "n", " ", "t", "o", " ", "\"", "f",
      "\"", "!">>,
    <<"v", "a", "r", " ", "x", " ", "=", " ", "1", "!", " ", "p", "r", "i",
      "n", "t", "(", "n", "e", "x", "t", " ", "x", ")", "!">>,
    <<"p", "r", "i", "n", "t", "(", "a", "w", "a", "i", "t", " ", "5", ")",
      "!">>
  }

Sources ==
  DivisionSources \cup IncrementSources \cup BodySources \cup Programs
    \cup {ReverseSources[i] : i \in 1..Len(ReverseSources)} \cup UnvisitedSources

\* run_dreamberd(source): a new interpreter, and interpret makes the lexer
InitRun ==
  /\ \E text \in Sources : InitOf(text)
  /\ phase = "lex"

NextRun ==
  \/ Tokenize
  \/ TokenizeEnd
  \/ ParseStatement
  \/ CloseBody
  \/ OpenFileBlock
  \/ CloseFileBlock
  \/ ParseEnd
  \/ VisitStatement
  \/ Return

SpecRun == InitRun /\ [][NextRun]_vars

\* every evaluation of the runs is one the model covers
AllModelled == fault # Unmodelled

(***************************************************************************)
(* What a state lets the program read.                                     *)
(***************************************************************************)
\* the names the statements use
Names == {"x", "y", "c", "g"}

\* a read of name succeeds
Live(name) == get_variable(name, Self).err = NoFault

\* the wrapper a read of name finds
Wrapper(name) ==
  LET g == get_variable(name, Self) IN g.st.heap[g.ref]

\* a read of name yields value
Reads(name, value) == Live(name) /\ Wrapper(name).value = value

\* what run_dreamberd returns once interpret has returned
Returned == output

\* the print calls and '?' statements a fault-free evaluation of node
\* evaluates (the body of a function declaration is not evaluated)
RECURSIVE Emissions(_)
RECURSIVE EmissionsOf(_, _)
EmissionsOf(nodes, i) ==
  IF i > Len(nodes) THEN 0 ELSE Emissions(nodes[i]) + EmissionsOf(nodes, i + 1)
Emissions(node) ==
  IF node.k = "FunctionDeclaration" THEN 0
  ELSE (IF node.k = "ExpressionStatement" /\ node.f THEN 1 ELSE 0)
       + (IF node.k = "FunctionCall" /\ node.kids[1] = Identifier("print") THEN 1 ELSE 0)
       + EmissionsOf(node.kids, 1)

(***************************************************************************)
(* C1: a statement that runs without a fault leaves the log it found as a  *)
(* prefix of the log and adds one line for each print call and each '?'    *)
(* statement it evaluates, in the order of evaluation: print(x) adds       *)
(* str(x), a '?' statement adds its DEBUG line last.  The log is what run  *)
(* returns.                                                                *)
(***************************************************************************)
C1_OutputIsTheEmissions ==
  [][fault' = NoFault =>
       /\ SubSeq(Returned', 1, Len(output)) = output
       /\ Len(Returned') = Len(output) + Emissions(stmt')
       /\ (stmt'.k = "ExpressionStatement" /\ stmt'.f
             => Returned'[Len(Returned')] = DebugInfo(result'))
       /\ \A d \in BOOLEAN :
            stmt' = Terminated(PrintCall(Identifier("x")), d)
              => Returned'[Len(output) + 1] = PyStr(Wrapper("x").value)]_vars

\* print(x)? has run after another line: the log ends with str(x) and then
\* the DEBUG line of the call's result
C1_Witness ==
  /\ fault = NoFault
  /\ stmt = Terminated(PrintCall(Identifier("x")), TRUE)
  /\ Len(output) = 3
  /\ output[2] = PyStr(Wrapper("x").value)
  /\ output[3] = "DEBUG: None (type: NoneType)"

(***************************************************************************)
(* C2, as the code has it: a fault ends the run, no statement is visited   *)
(* after it, at any nesting level, and the log keeps every line emitted    *)
(* before the fault, those of the faulting statement included.  The body   *)
(* print("in")! <fault> print("out")! leaves exactly "in"; print(1) = z!   *)
(* leaves "1".                                                             *)
(***************************************************************************)
C2_FaultEndsTheRun ==
  [][/\ fault = NoFault
     /\ SubSeq(output', 1, Len(output)) = output
     /\ (stmt' \in FileBlocks /\ ~(Live("x") /\ IsNum(Wrapper("x").value))
           => fault' # NoFault /\ output' = Append(output, "in"))
     /\ (stmt' = Terminated(Call("g", <<>>), FALSE) /\ Live("g")
           => fault' = "Undefined variable: z" /\ output' = Append(output, "in"))
     /\ (stmt' = Terminated(BinaryOperation(PrintCall(Num(1)), "=", Identifier("z")), FALSE)
           => fault' = "Undefined variable: z" /\ output' = Append(output, "1"))]_vars

\* the call of g has faulted inside the body, after a line of an earlier
\* statement: the log is that line and "in"
C2_Witness ==
  /\ stmt = Terminated(Call("g", <<>>), FALSE)
  /\ fault = "Undefined variable: z"
  /\ output = <<"1", "in">>

\* C2 as stated: when a statement that has no statement nested in it
\* faults, the log is the log before that statement
C2_LogBeforeFaultingStatement ==
  [][fault' # NoFault /\ stmt'.k = "ExpressionStatement"
       /\ stmt'.kids[1].k # "FunctionCall"
       => output' = output]_vars

(***************************************************************************)
(* C3 as stated: parse terminates, and no loop of the parser makes no      *)
(* progress: every turn of a loop over the statements of the program or of *)
(* a function, class, if, else or when body gets a statement, raises a     *)
(* ParseError or moves on in the tokens, also when the '}' of the body is  *)
(* missing at the end of input.                                            *)
(***************************************************************************)
C3_NoLoopWithoutProgress ==
  phase = "parse" /\ AtStatement
    => LET Same(r) == r.kind = "none" /\ r.pos = parser_pos
       IN  ~Same(Turn)

(***************************************************************************)
(* C4: a declaration of a name whose live binding has a strictly higher    *)
(* priority changes nothing: no binding, history or priority changes, the  *)
(* initializer is not evaluated (no variable changes, no fault, no line).  *)
(***************************************************************************)
C4_LowerPriorityIgnored ==
  [][\A name \in Names :
       (/\ stmt'.k = "VariableDeclaration"
        /\ stmt'.s = name
        /\ Live(name)
        /\ Wrapper(name).has_priority
        /\ stmt'.p < Wrapper(name).priority)
       => /\ fault' = NoFault
          /\ UNCHANGED <<scope_stack, heap, functions, classes, class_instances,
                         deleted_values, reversed, output, immutable_globals>>]_vars

\* const x = 1!  const x = 2!!!  const x = 3!  has run: x reads 2
C4_Witness ==
  /\ steps = 3
  /\ stmt = VariableDeclaration("x", <<Num(3)>>, <<>>, 1)
  /\ Reads("x", IntV(2))
  /\ Wrapper("x").priority = 3
  /\ Wrapper("x").history = <<IntV(2)>>

(***************************************************************************)
(* C5 as stated: a declaration of a name whose live binding has a priority *)
(* lower than or equal to the declaration's takes effect: the name then    *)
(* reads the declared value.                                               *)
(***************************************************************************)
C5_EqualOrHigherReplaces ==
  [][\A name \in Names :
       (/\ stmt'.k = "VariableDeclaration"
        /\ stmt'.s = name
        /\ stmt'.kids # <<>>
        /\ stmt'.kids[1].k = "NumberLiteral"
        /\ Live(name)
        /\ Wrapper(name).has_priority
        /\ stmt'.p >= Wrapper(name).priority)
       => Live(name)' /\ Wrapper(name)'.value = stmt'.kids[1].v]_vars

(***************************************************************************)
(* C6: after const const const c = 42! the name and its shadow binding     *)
(* read 42, and the statement c = 0!, a comparison, changes no binding:    *)
(* the constant and its shadow binding read afterwards what they read      *)
(* before.                                                                 *)
(***************************************************************************)
C6_ConstantSurvivesEquals ==
  [][/\ (stmt' \in GlobalConstantDeclarations
           => /\ fault' = NoFault
              /\ Reads("c", IntV(42))'
              /\ Reads(ShadowKey("c"), IntV(42))'
              /\ "c" \in immutable_globals')
     /\ ((/\ stmt' = Terminated(BinaryOperation(Identifier("c"), "=", Num(0)), FALSE)
          /\ "c" \in immutable_globals)
           => /\ fault' = NoFault
              /\ result' = BoolV(FALSE)
              /\ UNCHANGED <<scope_stack, heap, immutable_globals>>)]_vars

\* const const const c = 42!  c = 0!  has run: c and its shadow read 42
C6_Witness ==
  /\ steps = 2
  /\ stmt = Terminated(BinaryOperation(Identifier("c"), "=", Num(0)), FALSE)
  /\ fault = NoFault
  /\ Reads("c", IntV(42))
  /\ Reads(ShadowKey("c"), IntV(42))

(***************************************************************************)
(* C7: the read a[i] of an array of n elements yields the element at       *)
(* internal position i + 1 when -1 <= i <= n - 2, and is the fault         *)
(* "Array index out of bounds" for every other index.                      *)
(***************************************************************************)
C7_ArrayReadOffset ==
  \A n \in 0..MaxLen, i \in -2..MaxLen :
    stmt = ArrayRead(n, i)
      => IF -1 <= i /\ i <= n - 2
           THEN fault = NoFault /\ result = IntV(ArrayElements[i + 2])
         ELSE fault = "Array index out of bounds"

\* [3, 2, 5][-1]? has yielded 3
C7_Witness ==
  /\ stmt = ArrayRead(3, -1)
  /\ fault = NoFault
  /\ result = IntV(3)

(***************************************************************************)
(* C8 as stated: print(a/0)!, for a number a and with or without blanks    *)
(* around the slash, ends without a fault and has emitted exactly the line *)
(* undefined.                                                              *)
(***************************************************************************)
C8_DivisionByZeroIsUndefined ==
  source \in DivisionSources /\ phase = "done"
    => fault = NoFault /\ Returned = <<"undefined">>

(***************************************************************************)
(* C9: ++x on a variable holding the number v yields v + 1, leaves x at    *)
(* v + 1 and appends v + 1 to the history of x; --x likewise with v - 1.   *)
(* With y = 5, const x = ++y binds x to 6.                                 *)
(***************************************************************************)
C9_PrefixYieldsNewValue ==
  [][/\ \A d \in BOOLEAN, delta \in {1, -1} :
          (/\ stmt' = Terminated((IF delta = 1
                                    THEN IncrementExpression(Identifier("x"), TRUE)
                                  ELSE DecrementExpression(Identifier("x"), TRUE)), d)
           /\ Live("x")
           /\ IsInt(Wrapper("x").value))
          => LET new_value == IntV(Wrapper("x").value.n + delta)
             IN  /\ fault' = NoFault
                 /\ result' = new_value
                 /\ Live("x")'
                 /\ Wrapper("x")'.value = new_value
                 /\ Wrapper("x")'.history = Append(Wrapper("x").history, new_value)
     /\ (/\ stmt' = VariableDeclaration("x", <<IncrementExpression(Identifier("y"), TRUE)>>,
                                        <<>>, 3)
         /\ ~Live("x")
         /\ Reads("y", IntV(5)))
          => /\ Reads("x", IntV(6))'
             /\ Reads("y", IntV(6))'
             /\ Wrapper("y")'.history = Append(Wrapper("y").history, IntV(6))]_vars

\* var y = 5!  const x = ++y!!!  has run: the increment yielded 6 and left
\* y at 6
C9_Witness ==
  /\ steps = 2
  /\ stmt = VariableDeclaration("x", <<IncrementExpression(Identifier("y"), TRUE)>>,
                                <<>>, 3)
  /\ Reads("x", IntV(6))
  /\ Reads("y", IntV(6))
  /\ Wrapper("y").history = <<IntV(5), IntV(6)>>

(***************************************************************************)
(* C10 as stated: after var x = 5! ++x! the source expression x++ parses   *)
(* to a postfix increment that yields 6 and leaves x at 7: the run ends    *)
(* without a fault, the program holds the postfix increment of x and x     *)
(* reads 7.                                                                *)
(***************************************************************************)
C10_PostfixYieldsOldValue ==
  source \in IncrementSources /\ phase = "done"
    => /\ fault = NoFault
       /\ \E i \in 1..Len(program) :
            program[i].kids = <<IncrementExpression(Identifier("x"), FALSE)>>
       /\ Reads("x", IntV(7))

IsScalarNumber(v) == v.t \in {"int", "float"}

Close(x, y) == 2 * Abs(x.n * y.d - y.n * x.d) < x.d * y.d

(***************************************************************************)
(* C11 as stated: on every pair of number and string literals the equality *)
(* operators yield their reference values: = is closeness within 1/2 on    *)
(* numbers, == compares the renderings, === needs equal value and equal    *)
(* type, and ==== on two scalars of one type is value equality.            *)
(***************************************************************************)
C11_EqualityLadder ==
  \A left \in EqualityOperands, right \in EqualityOperands :
    LET x == left.v
        y == right.v
        Yields(operator, b) ==
          (steps > 0 /\ stmt = EqualityStatement(left, operator, right))
            => fault = NoFault /\ result = BoolV(b)
    IN  /\ IsScalarNumber(x) /\ IsScalarNumber(y) => Yields("=", Close(x, y))
        /\ Yields("==", PyStr(x) = PyStr(y))
        /\ Yields("===", PyEq(x, y) /\ x.t = y.t)
        /\ x.t = y.t => Yields("====", PyEq(x, y))

\* what the sources of ReverseSources would emit when run backwards
ReverseEmits == <<<<"2", "1">>, <<"3", "2", "1">>, <<"2", "3", "1">>>>

(***************************************************************************)
(* C12 as stated: a run of reverse! followed by top-level prints ends with *)
(* the lines of those prints in the reverse of their source order, the     *)
(* statements of a file block among them keeping their declared order.     *)
(***************************************************************************)
C12_ReverseRunsBackwards ==
  \A i \in 1..Len(ReverseSources) :
    (source = ReverseSources[i] /\ phase = "done")
      => fault = NoFault /\ output = ReverseEmits[i]

MoreThanOne(class_name) == "Can't have more than one '" \o class_name \o "' instance!"

(***************************************************************************)
(* C13: a class name has at most one registered instance: once an instance *)
(* is registered for a name, no step registers another in its place; new   *)
(* C() for a class that has an instance faults and leaves the registry and *)
(* the scope stack as they were; new C() for an undeclared class faults.   *)
(***************************************************************************)
C13_SingletonClasses ==
  [][\A class_name \in ClassNames :
       /\ class_name \in DOMAIN class_instances
            => /\ class_name \in DOMAIN class_instances'
               /\ class_instances'[class_name] = class_instances[class_name]
       /\ (/\ steps' = steps + 1
           /\ stmt' = NewStatement(class_name)
           /\ class_name \in DOMAIN class_instances)
            => /\ fault' = MoreThanOne(class_name)
               /\ UNCHANGED <<class_instances, scope_stack>>
       /\ (/\ steps' = steps + 1
           /\ stmt' = NewStatement(class_name)
           /\ class_name \notin DOMAIN classes)
            => /\ fault' = "Undefined class: " \o class_name
               /\ UNCHANGED <<class_instances, scope_stack>>]_vars

\* class C { var y = 1! }  new C()!  new C()!  has run: the second new
\* faulted and the one instance of C is the first
C13_Witness ==
  /\ steps = 3
  /\ stmt = NewStatement("C")
  /\ fault = MoreThanOne("C")
  /\ DOMAIN class_instances = {"C"}
  /\ class_instances["C"].a[1]["y"] = IntV(1)

\* a read of name fails with the deleted-variable fault
Deleted(name) ==
  get_variable(name, Self).err = "Variable '" \o name \o "' has been deleted"

(***************************************************************************)
(* C14 as stated: once a lookup of x fails with the deleted-variable       *)
(* fault, which is the case from delete x on a bound x onwards, a lookup   *)
(* of x fails with that fault after every later statement, a new           *)
(* declaration of x included.                                              *)
(***************************************************************************)
C14_DeletedStaysDeleted == [][Deleted("x") => Deleted("x")']_vars

\* the value equals a deleted number
Poisoned(value) == \E n \in deleted_values : PyEq(value, n)

PoisonFault == "Cannot perform arithmetic on deleted values"

(***************************************************************************)
(* C15: delete n! puts n into the set of deleted values and no step takes  *)
(* a value out of it; a binary + - * / ^ % one of whose operands equals a  *)
(* deleted number faults, and one whose operands both differ from every    *)
(* deleted number yields what it yields when nothing is deleted.           *)
(***************************************************************************)
C15_DeletedNumbersPoison ==
  [][/\ deleted_values \subseteq deleted_values'
     /\ \A n \in DeletedNumbers :
          (steps' = steps + 1 /\ stmt' = DeleteStatement(n))
            => n.v \in deleted_values'
     /\ (steps' = steps + 1 /\ stmt' \in ArithmeticStatements)
          => LET Operation(left, operator, right) ==
                   IF Poisoned(left) \/ Poisoned(right)
                     THEN fault' = PoisonFault
                   ELSE LET unaffected ==
                              evaluate_arithmetic(left, operator, right, {})
                        IN  /\ fault' = unaffected.err
                            /\ fault' = NoFault => result' = unaffected.v
                 Evaluated(left, right) ==
                   (left.err = NoFault /\ right.err = NoFault)
                     => Operation(left.v, stmt'.kids[1].s, right.v)
             IN  Evaluated(visit(stmt'.kids[1].kids[1], Self),
                           visit(stmt'.kids[1].kids[2], Self))]_vars

\* delete 1!  var x = 2!  x + 1.0!  has run: the sum faulted on its right
\* operand, which equals the deleted 1
C15_Witness ==
  /\ steps = 3
  /\ stmt = ArithmeticStatement(Identifier("x"), "+", NumberLiteral(FloatV(1, 1)))
  /\ deleted_values = {IntV(1)}
  /\ Reads("x", IntV(2))
  /\ fault = PoisonFault

\* the tokens made of '=' characters only
EqualityTypes ==
  {"ASSIGN", "LOOSE_EQUAL", "STRICT_EQUAL", "SUPER_STRICT_EQUAL", "FILE_SEPARATOR"}

EqualityTokens == SelectSeq(tokens, LAMBDA token : token.type \in EqualityTypes)

\* the token type the claim gives a run of n
RunType(n) ==
  CASE n = 1 -> "ASSIGN"
    [] n = 2 -> "LOOSE_EQUAL"
    [] n = 3 -> "STRICT_EQUAL"
    [] n = 4 -> "SUPER_STRICT_EQUAL"
    [] n >= 5 -> "FILE_SEPARATOR"

\* the tokens of '=' characters are one token, the run of n
OneToken(n) ==
  /\ Len(EqualityTokens) = 1
  /\ EqualityTokens[1].type = RunType(n)
  /\ EqualityTokens[1].value = Run(n)

\* the source is lexed and its run of n follows before and precedes after
LexedRun(before, n, after) ==
  phase = "parse" /\ source = RunSource(before, n, after)

\* a single '=' followed by '>' is the arrow
FormsArrow(n, after) == n = 1 /\ after # <<>> /\ Head(after) = ">"

\* the run starts where '<' or '>' takes its first '='
Relational(before) == before # <<>> /\ before[Len(before)] \in {"<", ">"}

DeclaresGlobal(node) ==
  \E i \in 1..Len(node.kids) : node.kids[i].k = "GlobalConstantDeclaration"

(***************************************************************************)
(* C17: a statement that runs a body in a scope of its own, a function     *)
(* call, a file block or new C(), leaves the scope stack as long as it     *)
(* found it, and with the same bindings in every scope unless the body     *)
(* declared a global constant, whether the body ended normally, by a       *)
(* return or by a fault.                                                   *)
(***************************************************************************)
C17_ScopesBalanced ==
  [][(steps' = steps + 1 /\ stmt' \in Bodied)
       => /\ Len(scope_stack') = Len(scope_stack)
          /\ ~DeclaresGlobal(stmt') => scope_stack' = scope_stack]_vars

\* var x = 1!  fn h() => { ++x!  z! }  h()?  has run: the body raised x to
\* 2 and then faulted on z, and the scope of the call is gone
C17_Witness ==
  /\ steps = 3
  /\ stmt = Terminated(Call("h", <<>>), TRUE)
  /\ fault = "Undefined variable: z"
  /\ Reads("x", IntV(2))
  /\ Len(scope_stack) = 1

\* scope i holds x
Holds(i) == "x" \in DOMAIN scope_stack[i]

\* the wrapper x is bound to in scope i
Held(i) == heap[scope_stack[i]["x"]]

\* scope i holds a binding of x whose expiry has not passed
Unexpired(i) == Holds(i) /\ ~(Held(i).has_lifetime /\ now > Held(i).lifetime)

\* the innermost scope with an unexpired binding of x, 0 if there is none
Found ==
  IF \E i \in 1..Len(scope_stack) : Unexpired(i)
    THEN CHOOSE i \in 1..Len(scope_stack) :
           Unexpired(i) /\ \A j \in (i + 1)..Len(scope_stack) : ~Unexpired(j)
  ELSE 0

(***************************************************************************)
(* C18: a lookup of x takes the innermost scope that holds an unexpired    *)
(* binding of x: it removes the expired bindings of x from the scopes      *)
(* inside of that one and touches no other scope; it yields the value of   *)
(* that binding, or the deleted-variable fault if the binding is deleted,  *)
(* or the undefined-variable fault if no scope holds an unexpired binding. *)
(***************************************************************************)
C18_LookupWalksOutward ==
  [][steps' = steps + 1
       => /\ Len(scope_stack') = Len(scope_stack)
          /\ \A i \in 1..Len(scope_stack) :
               scope_stack'[i] =
                 IF i > Found /\ Holds(i) THEN DelKey(scope_stack[i], "x")
                 ELSE scope_stack[i]
          /\ IF Found = 0 THEN fault' = "Undefined variable: x"
             ELSE IF Held(Found).deleted
               THEN fault' = "Variable 'x' has been deleted"
             ELSE fault' = NoFault /\ result' = Held(Found).value]_vars

\* after the first second a lookup met the expired binding of the innermost
\* scope, removed it, and found the binding of the scope around it, while
\* the expired binding of the global scope is still in place
C18_Witness ==
  /\ steps = 1
  /\ now = 2
  /\ Len(scope_stack) = 3
  /\ ~Holds(3)
  /\ Holds(2) /\ ~Held(2).has_lifetime
  /\ Holds(1) /\ Held(1).has_lifetime
  /\ fault = NoFault
  /\ result = IntV(2)

\* the node variants of the syntax tree
NodeKinds ==
  {"NumberLiteral", "StringLiteral", "BooleanLiteral", "MaybeLiteral",
   "UndefinedLiteral", "NullLiteral", "Identifier", "ArrayLiteral", "ArrayAccess",
   "BinaryOperation", "UnaryOperation", "Assignment", "FunctionCall",
   "MemberAccess", "VariableDeclaration", "FunctionDeclaration",
   "ClassDeclaration", "IfStatement", "WhenStatement", "ReturnStatement",
   "DeleteStatement", "ImportStatement", "ExportStatement", "ReverseStatement",
   "PreviousExpression", "NextExpression", "CurrentExpression", "UseExpression",
   "NewExpression", "AwaitExpression", "FileBlock", "NoopStatement",
   "GlobalConstantDeclaration", "IncrementExpression", "DecrementExpression",
   "ExpressionStatement", "PrintStatement"}

(***************************************************************************)
(* C19 as stated: no run of a source that parses ends with the fault of a  *)
(* node that has no visitor, and print(await 5)! emits 5.                  *)
(***************************************************************************)
C19_EveryNodeHasAVisitor ==
  /\ \A kind \in NodeKinds : fault # generic_visit([k |-> kind], Self).err
  /\ (phase = "done" /\ source = <<"p", "r", "i", "n", "t", "(", "a", "w", "a",
                                    "i", "t", " ", "5", ")", "!">>)
       => output = <<"5">>

\* g is bound to the function  fn g(a, b) => { print(a)!  var y = b!
\* return y!  print("after")! }
BoundToBlock(name) ==
  /\ Live(name)
  /\ Wrapper(name).value.t = "FunctionDeclaration"
  /\ Wrapper(name).value.a[1] \in ScopeFunctions

(***************************************************************************)
(* C20: the call g(1, 2) of the block-bodied g binds a to 1 and b to 2 in  *)
(* a scope of its own, runs the statements of the body in declared order   *)
(* up to the return statement, and yields the value of that statement:     *)
(* the line of print(a) is emitted, then the call yields the value b gave  *)
(* to y, the print after the return emits nothing, and neither a, b nor y  *)
(* is bound once the call is over.                                         *)
(***************************************************************************)
C20_BlockBodyStopsAtReturn ==
  [][(/\ steps' = steps + 1
      /\ stmt' = Terminated(Call("g", <<Num(1), Num(2)>>), TRUE)
      /\ BoundToBlock("g"))
       => /\ fault' = NoFault
          /\ result' = IntV(2)
          /\ output' = output \o <<"1", "DEBUG: 2 (type: int)">>
          /\ scope_stack' = scope_stack]_vars

\* fn g(a, b) => { ... }  g(1, 2)?  has run
C20_Witness ==
  /\ steps = 2
  /\ stmt = Terminated(Call("g", <<Num(1), Num(2)>>), TRUE)
  /\ BoundToBlock("g")
  /\ result = IntV(2)
  /\ output = <<"1", "DEBUG: 2 (type: int)">>
  /\ Len(scope_stack) = 1
  /\ ~Live("y")

(***************************************************************************)
(* SpecSignal: the loop of visit_Program over declarations of signals and  *)
(* calls on them, with no argument and with one.                           *)
(***************************************************************************)
SignalNames == {"a", "b"}

SignalValues == {5, 7}

\* the names declared as signals, each with its initial value
SignalInitials == {<<"a", 0>>, <<"b", 1>>, <<"a", 2>>}

\* var name = use(e)!
SignalDeclaration(name, e) ==
  VariableDeclaration(name, <<UseExpression(Num(e))>>, <<>>, 1)

\* var a = use(0)!  var b = use(1)!  var a = use(2)!
SignalDeclarations == {SignalDeclaration(d[1], d[2]) : d \in SignalInitials}

\* a()!  b()!  a(5)!  a(7)!  b(5)!  b(7)!
SignalCalls ==
  {Terminated(Call(name, <<>>), FALSE) : name \in SignalNames}
    \cup {Terminated(Call(name, <<Num(v)>>), FALSE) :
            name \in SignalNames, v \in SignalValues}

\* print(a())!  print(b())!
SignalPrints ==
  {Terminated(PrintCall(Call(name, <<>>)), FALSE) : name \in SignalNames}

StepSignalDeclaration == \E node \in SignalDeclarations : Step(node)
StepSignalCall == \E node \in SignalCalls : Step(node)
StepSignalPrint == \E node \in SignalPrints : Step(node)

NextSignal == StepSignalDeclaration \/ StepSignalCall \/ StepSignalPrint

SpecSignal == Init /\ [][NextSignal]_vars

\* name is bound to a signal
IsSignal(name) ==
  /\ Live(name)
  /\ Wrapper(name).value.t = "function"
  /\ Wrapper(name).value.s = "signal"

\* the value the signal bound to name has stored
Stored(name) == heap[Wrapper(name).value.n].value

\* the values all signals but the one bound to name have stored
Others(name) ==
  [ref \in (DOMAIN heap) \ {Wrapper(name).value.n} |-> heap[ref].value]

(***************************************************************************)
(* C21: a signal made by use(e) is one stored cell. Declaring a name as    *)
(* use(e) stores the value of e; a call with no argument returns the       *)
(* stored value and stores nothing; a call with one argument v stores v    *)
(* and returns v; a call on one signal leaves what every other signal has  *)
(* stored as it was. (By induction a call with no argument returns the     *)
(* value of the latest call with one argument, or the initial value.)      *)
(***************************************************************************)
C21_SignalIsOneCell ==
  [][/\ \A d \in SignalInitials :
          (/\ stmt' = SignalDeclaration(d[1], d[2])
           /\ \/ ~Live(d[1])
              \/ Wrapper(d[1])' # Wrapper(d[1]))
            => /\ IsSignal(d[1])'
               /\ Stored(d[1])' = IntV(d[2])
     /\ \A name \in SignalNames :
          IsSignal(name) =>
            /\ stmt' = Terminated(Call(name, <<>>), FALSE)
                 => /\ fault' = NoFault
                    /\ result' = Stored(name)
                    /\ heap' = heap
            /\ stmt' = Terminated(PrintCall(Call(name, <<>>)), FALSE)
                 => /\ fault' = NoFault
                    /\ output' = Append(output, PyStr(Stored(name)))
                    /\ heap' = heap
            /\ \A v \in SignalValues :
                 stmt' = Terminated(Call(name, <<Num(v)>>), FALSE)
                   => /\ fault' = NoFault
                      /\ result' = IntV(v)
                      /\ IsSignal(name)'
                      /\ Stored(name)' = IntV(v)
                      /\ Others(name)' = Others(name)]_vars

\* b has been set to 7 while a keeps its initial value
C21_Witness ==
  /\ stmt = Terminated(Call("b", <<Num(7)>>), FALSE)
  /\ fault = NoFault
  /\ IsSignal("a") /\ IsSignal("b")
  /\ Stored("a") = IntV(0)
  /\ Stored("b") = IntV(7)

(***************************************************************************)
(* SpecLifetime: run_dreamberd on declarations of x with a lifetime        *)
(* annotation, each followed by a read of x, while the clock runs.         *)
(***************************************************************************)
\* the annotations, each with the seconds it stands for (-1: never expires)
Lifetimes ==
  {
    [text |-> <<"2", "0", "s">>, seconds |-> 20],
    [text |-> <<"1", "s">>, seconds |-> 1],
    [text |-> <<"2", "m">>, seconds |-> 120],
    [text |-> <<"1", "h">>, seconds |-> 3600],
    [text |-> <<"1">>, seconds |-> 1],
    [text |-> <<"2">>, seconds |-> 2],
    [text |-> <<"I", "n", "f", "i", "n", "i", "t", "y">>, seconds |-> -1]
  }

\* the texts 'const x<' and 'var x<'
LifetimeHeads ==
  {
    <<"c", "o", "n", "s", "t", " ", "x", "<">>,
    <<"v", "a", "r", " ", "x", "<">>
  }

\* the text '> = 1!', a line end, and 'print(x)!'
LifetimeTail ==
  <<">", " ", "=", " ", "1", "!", "\n", "p", "r", "i", "n", "t", "(", "x",
    ")", "!">>

\* const x<20s> = 1!  print(x)!  and the like
LifetimeSource(head, text) == head \o text \o LifetimeTail

LifetimeSources ==
  {LifetimeSource(head, l.text) : head \in LifetimeHeads, l \in Lifetimes}

InitLifetime ==
  /\ \E text \in LifetimeSources : InitOf(text)
  /\ phase = "lex"

NextLifetime ==
  \/ Tokenize
  \/ TokenizeEnd
  \/ ParseStatement
  \/ ParseEnd
  \/ VisitStatement
  \/ Return
  \/ Tick

SpecLifetime == InitLifetime /\ [][NextLifetime]_vars

(***************************************************************************)
(* C22: a declaration of x with the lifetime annotation <Ns>, <Nm>, <Nh>   *)
(* or <N> parses, and once it has been evaluated x is found by a lookup    *)
(* as long as no more than N seconds, minutes, hours or seconds have       *)
(* passed; with <Infinity> x is found at every later time.                 *)
(***************************************************************************)
C22_LifetimeBindsUntilExpiry ==
  \A head \in LifetimeHeads, l \in Lifetimes :
    source = LifetimeSource(head, l.text)
      => /\ fault = NoFault
         /\ (phase \in {"run", "done"} /\ steps >= 1 /\ (l.seconds = -1 \/ now <= l.seconds))
              => Live("x")

(***************************************************************************)
(* C23: a global constant is immutable. Once const const const c = 42! has *)
(* been evaluated, a read of c at global scope and a read of its shadow    *)
(* key yield 42 in every later state, whatever statements have followed.   *)
(***************************************************************************)
C23_GlobalConstantIsImmutable ==
  "c" \in immutable_globals
    => /\ Reads("c", IntV(42))
       /\ Reads(ShadowKey("c"), IntV(42))

(***************************************************************************)
(* SpecTerminator: run_dreamberd on one declaration or expression          *)
(* statement followed by a terminator, or by none.                         *)
(***************************************************************************)
\* the texts 'var x = 1', 'const y = 2' and 'print(1)'
Unterminated ==
  {
    <<"v", "a", "r", " ", "x", " ", "=", " ", "1">>,
    <<"c", "o", "n", "s", "t", " ", "y", " ", "=", " ", "2">>,
    <<"p", "r", "i", "n", "t", "(", "1", ")">>
  }

\* a run of k marks, with the priority and the debug flag it stands for
Marks(mark, k, priority, is_debug) ==
  [priority |-> priority, is_debug |-> is_debug, text |-> [i \in 1..k |-> mark]]

\* !  !!  !!!  the inverted mark  ?  ??  ???  and no terminator
Terminators ==
  {Marks("!", k, k, FALSE) : k \in 1..MaxLen}
    \cup {Marks("¡", 1, -1, FALSE)}
    \cup {Marks("?", k, 0, TRUE) : k \in 1..MaxLen}
    \cup {Marks("!", 0, 0, FALSE)}

TerminatorSources ==
  {text \o t.text : text \in Unterminated, t \in Terminators}

InitTerminator ==
  /\ \E text \in TerminatorSources : InitOf(text)
  /\ phase = "lex"

NextTerminator ==
  \/ Tokenize
  \/ TokenizeEnd
  \/ ParseStatement
  \/ ParseEnd
  \/ VisitStatement
  \/ Return

SpecTerminator == InitTerminator /\ [][NextTerminator]_vars

(***************************************************************************)
(* C24: a declaration or expression statement is complete only with its    *)
(* terminator. The source is parsed to one statement exactly when a        *)
(* terminator follows it; the statement then has the priority of the       *)
(* terminator (k for a run of k '!', -1 for the inverted mark, 0 for '?')  *)
(* and, an expression statement, the debug flag when the terminator is a   *)
(* run of '?'. A source without terminator is a parse fault.               *)
(***************************************************************************)
C24_StatementsEndWithATerminator ==
  \A text \in Unterminated, t \in Terminators :
    (source = text \o t.text /\ phase \in {"run", "done"})
      => IF t.text = <<>> THEN program = <<>> /\ fault # NoFault
         ELSE /\ fault = NoFault
              /\ Len(program) = 1
              /\ program[1].p = t.priority
              /\ program[1].k = "ExpressionStatement" => program[1].f = t.is_debug

(***************************************************************************)
(* C25: wherever the characters '=>' stand in the source, the lexer emits  *)
(* an arrow token for them, however many '=' precede: when '>' follows a   *)
(* run of n '=', the last '=' of the run and the '>' are lexed as the      *)
(* arrow token, which starts at the last '=' of the run.                   *)
(***************************************************************************)
C25_ArrowWhereverItOccurs ==
  \A before \in RunPrefixes, n \in 1..MaxRun :
    LexedRun(before, n, <<">">>)
      => \E i \in 1..Len(tokens) :
           /\ tokens[i].type = "ARROW"
           /\ tokens[i].column = Len(before) + n

(***************************************************************************)
(* SpecNotEqual: run_dreamberd on one comparison l != r or l == r of two    *)
(* integer literals, as a statement of its own and as the argument of      *)
(* print.                                                                  *)
(***************************************************************************)
NotEqualOperands == {1, 2, 3}

\* the texts ' != ', '!=' and ' !='
NotEquals ==
  {
    <<" ", "!", "=", " ">>,
    <<"!", "=">>,
    <<" ", "!", "=">>
  }

\* the texts of the comparison operators of the sources: those and ' == '
Comparisons == NotEquals \cup {<<" ", "=", "=", " ">>}

\* l != r!
NotEqualStatement(l, ne, r) == <<Digit[l + 1]>> \o ne \o <<Digit[r + 1], "!">>

\* print(l != r)!
NotEqualPrint(l, ne, r) ==
  print_of \o <<Digit[l + 1]>> \o ne \o <<Digit[r + 1], ")", "!">>

NotEqualSources ==
  UNION {{NotEqualStatement(l, ne, r), NotEqualPrint(l, ne, r)} :
           l \in NotEqualOperands, ne \in Comparisons, r \in NotEqualOperands}

InitNotEqual ==
  /\ \E text \in NotEqualSources : InitOf(text)
  /\ phase = "lex"

NextNotEqual ==
  \/ Tokenize
  \/ TokenizeEnd
  \/ ParseStatement
  \/ ParseEnd
  \/ VisitStatement
  \/ Return

SpecNotEqual == InitNotEqual /\ [][NextNotEqual]_vars

\* the binary operation the source l != r is to parse to
NotEqual(l, r) == BinaryOperation(Num(l), "!=", Num(r))

(***************************************************************************)
(* C26: '!=' is the not-equal operator. The source l != r! is lexed and    *)
(* parsed without fault to the one statement whose expression is the       *)
(* binary operation '!=' on l and r, and print(l != r)! to the print of    *)
(* that operation; evaluated, the operation is true exactly when l and r   *)
(* are not equal.                                                          *)
(***************************************************************************)
C26_NotEqualIsAnOperator ==
  \A l \in NotEqualOperands, ne \in NotEquals, r \in NotEqualOperands :
    (phase \in {"run", "done"})
      => /\ source = NotEqualStatement(l, ne, r)
              => /\ fault = NoFault
                 /\ program = <<Terminated(NotEqual(l, r), FALSE)>>
                 /\ visit(NotEqual(l, r), Self).v = BoolV(l # r)
         /\ source = NotEqualPrint(l, ne, r)
              => /\ fault = NoFault
                 /\ program = <<Terminated(PrintCall(NotEqual(l, r)), FALSE)>>

(***************************************************************************)
(* SpecPrevious: the loop of visit_Program over declarations of x,         *)
(* increments and decrements of x, and previous-expressions.               *)
(***************************************************************************)
\* var x = 1!  var x = 7!!
PreviousDeclarations ==
  {VariableDeclaration("x", <<Num(1)>>, <<>>, 1),
   VariableDeclaration("x", <<Num(7)>>, <<>>, 2)}

\* ++x!  --x!  ++x + ++x!
PreviousUpdates ==
  {Terminated(e, FALSE) :
     e \in {IncrementExpression(Identifier("x"), TRUE),
            DecrementExpression(Identifier("x"), TRUE),
            BinaryOperation(IncrementExpression(Identifier("x"), TRUE), "+",
                            IncrementExpression(Identifier("x"), TRUE))}}

\* previous x
PreviousOfVariable == PreviousExpression(Identifier("x"))

\* previous 1, previous ++x, previous (previous x)
PreviousOfOthers ==
  {PreviousExpression(e) :
     e \in {Num(1), IncrementExpression(Identifier("x"), TRUE), PreviousOfVariable}}

\* previous x!  print(previous x)!  previous 1!  previous ++x!  ...
PreviousStatements ==
  {Terminated(PreviousOfVariable, FALSE), Terminated(PrintCall(PreviousOfVariable), FALSE)}
    \cup {Terminated(e, FALSE) : e \in PreviousOfOthers}

StepPreviousDeclaration == \E node \in PreviousDeclarations : Step(node)
StepPreviousUpdate == \E node \in PreviousUpdates : Step(node)
StepPrevious == \E node \in PreviousStatements : Step(node)

NextPrevious == StepPreviousDeclaration \/ StepPreviousUpdate \/ StepPrevious

SpecPrevious == Init /\ [][NextPrevious]_vars

\* the second-to-last entry of the history, or the value when there are
\* fewer than two entries
SecondToLast(w) ==
  IF Len(w.history) < 2 THEN w.value ELSE w.history[Len(w.history) - 1]

(***************************************************************************)
(* C27: previous x on a live variable x yields the second-to-last value of *)
(* the history of x, or the value of x when the history has fewer than two *)
(* entries, and changes neither the value nor the history of x (nor any    *)
(* other binding); previous applied to anything but a plain identifier is  *)
(* a runtime fault.                                                        *)
(***************************************************************************)
C27_PreviousIsSecondToLast ==
  [][/\ (Live("x") /\ stmt' = Terminated(PreviousOfVariable, FALSE))
          => /\ fault' = NoFault
             /\ result' = SecondToLast(Wrapper("x"))
             /\ UNCHANGED <<scope_stack, heap>>
     /\ (Live("x") /\ stmt' = Terminated(PrintCall(PreviousOfVariable), FALSE))
          => /\ fault' = NoFault
             /\ output' = Append(output, PyStr(SecondToLast(Wrapper("x"))))
             /\ UNCHANGED <<scope_stack, heap>>
     /\ \A e \in PreviousOfOthers :
          stmt' = Terminated(e, FALSE)
            => /\ fault' = "Previous can only be used with variables"
               /\ UNCHANGED <<scope_stack, heap, output>>]_vars

\* var x = 1!  ++x + ++x!  previous x!  has run: the history of x is 1, 2, 3
\* and previous x has yielded 2
C27_Witness ==
  /\ stmt = Terminated(PreviousOfVariable, FALSE)
  /\ fault = NoFault
  /\ Live("x")
  /\ Wrapper("x").history = <<IntV(1), IntV(2), IntV(3)>>
  /\ result = IntV(2)

(***************************************************************************)
(* SpecStack: a client of one interpreter that calls push_scope() and      *)
(* pop_scope() in any order and has statements visited in between; steps   *)
(* counts the calls, and stmt is the statement of the last call, if it     *)
(* was a visit.                                                            *)
(***************************************************************************)
\* the call of a method of the interpreter that leaves it as st
Called(st) ==
  /\ phase = "run"
  /\ steps < MaxSteps
  /\ Becomes(st)
  /\ steps' = steps + 1
  /\ stmt' = NoNode
  /\ UNCHANGED <<lexer_vars, parser_vars, phase, fault, result>>

\* push_scope(): the scope is a new empty one
PushScope == Called(push_scope(Self, <<>>))

PopScope == Called(pop_scope(Self))

\* var x = 1!  var y = 2!  print(x)!  const const const c = 42!  and the
\* file blocks
StackStatements ==
  {VariableDeclaration("x", <<Num(1)>>, <<>>, 1),
   VariableDeclaration("y", <<Num(2)>>, <<>>, 1),
   Terminated(PrintCall(Identifier("x")), FALSE)}
    \cup GlobalConstantDeclarations \cup ScopeFileBlocks

StepStackStatement == \E node \in StackStatements : Step(node)

NextStack == PushScope \/ PopScope \/ StepStackStatement

SpecStack == Init /\ [][NextStack]_vars

\* the scope holds every builtin name, bound to the wrapper made for it at
\* construction
HoldsBuiltins(scope) ==
  \A i \in 1..Len(BuiltinNames) :
    BuiltinNames[i] \in DOMAIN scope /\ scope[BuiltinNames[i]] = i

(***************************************************************************)
(* C28: in every reachable state the scope stack is not empty and its      *)
(* bottom element is the global scope made at construction, the scope      *)
(* that holds the builtins and the global constants: pop_scope never       *)
(* removes it, however often it is called.                                 *)
(***************************************************************************)
C28_GlobalScopeStays ==
  /\ Len(scope_stack) >= 1
  /\ HoldsBuiltins(scope_stack[1])
  /\ \A name \in immutable_globals : ShadowKey(name) \in DOMAIN scope_stack[1]

\* one call has been made, of pop_scope() on the stack of the global scope
\* alone (a call of push_scope() would have left two scopes)
C28_Witness ==
  /\ steps = 1
  /\ stmt = NoNode
  /\ scope_stack = InitInterpreter.scope_stack

(***************************************************************************)
(* SpecHistory: a client of one interpreter that has declarations,         *)
(* increments, decrements and deletions of x and y visited, calls          *)
(* set_variable on them, and pushes and pops scopes in between.            *)
(***************************************************************************)
HistoryNames == {"x", "y"}

HistoryValues == {IntV(5), StrV("a")}

\* set_variable(name, DreamBerdValue(value), create_new)
SetVariable ==
  \E name \in HistoryNames, value \in HistoryValues, create_new \in BOOLEAN :
    Called(set_variable(Self, name, DreamBerdValue(value, FALSE, 0), create_new))

\* var x = 1!  var x = 2!!  var y = 1!  ++x!  x++!  --x!  ++y!  delete x!
HistoryStatements ==
  {VariableDeclaration("x", <<Num(1)>>, <<>>, 1),
   VariableDeclaration("x", <<Num(2)>>, <<>>, 2),
   VariableDeclaration("y", <<Num(1)>>, <<>>, 1),
   DeleteStatement(Identifier("x"))}
    \cup {Terminated(e, FALSE) :
            e \in {IncrementExpression(Identifier("x"), TRUE),
                   IncrementExpression(Identifier("x"), FALSE),
                   DecrementExpression(Identifier("x"), TRUE),
                   IncrementExpression(Identifier("y"), TRUE)}}

StepHistoryStatement == \E node \in HistoryStatements : Step(node)

NextHistory == PushScope \/ PopScope \/ SetVariable \/ StepHistoryStatement

SpecHistory == Init /\ [][NextHistory]_vars

\* the wrappers the scopes of the stack bind
Bound ==
  UNION {{scope_stack[i][name] : name \in HistoryNames \cap DOMAIN scope_stack[i]} :
           i \in DOMAIN scope_stack}

\* every bound wrapper has a history, and its value is the last entry
HistoriesEndInValue ==
  \A ref \in Bound :
    /\ heap[ref].history # <<>>
    /\ heap[ref].value = heap[ref].history[Len(heap[ref].history)]

\* the history of a wrapper that stays bound keeps the entries it has
HistoriesGrow ==
  \A ref \in Bound \cap Bound' :
    /\ Len(heap'[ref].history) >= Len(heap[ref].history)
    /\ SubSeq(heap'[ref].history, 1, Len(heap[ref].history)) = heap[ref].history

(***************************************************************************)
(* C29: every value wrapper a scope binds has a non-empty history whose    *)
(* last entry is its current value, in the initial state and after every   *)
(* declaration, increment, decrement, deletion and set_variable call; and  *)
(* the history of a wrapper that stays bound only grows at its end: no     *)
(* entry is removed or rewritten.                                          *)
(***************************************************************************)
C29_HistoryIsAppendOnly ==
  HistoriesEndInValue /\ [][HistoriesEndInValue' /\ HistoriesGrow]_vars

\* set_variable("x", 5), ++x! and set_variable("x", "a") have acted on one
\* wrapper
C29_Witness ==
  /\ Live("x")
  /\ Wrapper("x").history = <<IntV(5), IntV(6), StrV("a")>>
  /\ Wrapper("x").value = StrV("a")

(***************************************************************************)
(* SpecShadow: declarations and reads of x at every priority, visited in   *)
(* the global scope and in the scopes pushed for bodies.                   *)
(***************************************************************************)
ShadowValues == {1, 2}

\* var x = 1¡  var x = 1?  var x = 2!  var x = 2!!!  ...
ShadowDeclaration(v, p) == VariableDeclaration("x", <<Num(v)>>, <<>>, p)

ShadowDeclarations ==
  {ShadowDeclaration(v, p) : v \in ShadowValues, p \in Priorities}

StepShadowDeclaration == \E node \in ShadowDeclarations : Step(node)

\* print(x)!
StepShadowRead == Step(Terminated(PrintCall(Identifier("x")), FALSE))

NextShadow == PushScope \/ PopScope \/ StepShadowDeclaration \/ StepShadowRead

SpecShadow == Init /\ [][NextShadow]_vars

\* the index of the innermost scope
Innermost == Len(scope_stack)

\* the index of the scope that holds the nearest binding of x, 0 if none
Nearest == HoldingScope("x", scope_stack, Innermost)

\* the nearest binding of x is in an outer scope
Outer == Nearest >= 1 /\ Nearest < Innermost

(***************************************************************************)
(* C30: a declaration of x in the scope of a body, when the nearest        *)
(* binding of x is in an outer scope: with a priority that does not        *)
(* exceed the priority of that binding it creates no binding and changes   *)
(* nothing; with a higher priority it binds x in the innermost scope to    *)
(* a new wrapper of its value and priority, and the outer scopes and the   *)
(* outer wrapper (value, history, priority) stay as they were.             *)
(***************************************************************************)
C30_WinnerBindsInnermost ==
  [][\A v \in ShadowValues, p \in Priorities :
       (stmt' = ShadowDeclaration(v, p) /\ Outer)
         => LET outer == scope_stack[Nearest]["x"]
            IN  /\ fault' = NoFault
                /\ heap[outer].has_priority
                /\ IF p <= heap[outer].priority
                     THEN UNCHANGED <<scope_stack, heap>>
                   ELSE /\ "x" \in DOMAIN scope_stack'[Innermost]
                        /\ scope_stack'[Innermost]["x"] \notin DOMAIN heap
                        /\ heap'[scope_stack'[Innermost]["x"]].value = IntV(v)
                        /\ heap'[scope_stack'[Innermost]["x"]].priority = p
                        /\ \A i \in 1..(Innermost - 1) : scope_stack'[i] = scope_stack[i]
                        /\ heap'[outer] = heap[outer]]_vars

\* var x = 1!  push_scope()  var x = 2!!!  the inner scope binds x to 2 and
\* the global scope still binds it to 1
C30_Witness ==
  /\ stmt = ShadowDeclaration(2, 3)
  /\ Len(scope_stack) = 2
  /\ "x" \in DOMAIN scope_stack[1] /\ "x" \in DOMAIN scope_stack[2]
  /\ heap[scope_stack[1]["x"]].value = IntV(1)
  /\ heap[scope_stack[2]["x"]].value = IntV(2)

====
